---- MODULE Spec2Model ----
(* The chat turn handlers of the SnarkySage server as state machines.        *)
(* One process per HTTP request ("turn"); a step of a process is the          *)
(* synchronous code between two awaits, taken when the awaited call settles.  *)
(* The request 'close' event and other turns interleave only at awaits, as    *)
(* on the single-threaded event loop.  Strings are sequences of tokens.       *)
(* generateImage, the ordered fallback over image generators, is a machine    *)
(* of its own (FallbackSpec): one step per generator that settles.            *)
EXTENDS Integers, Sequences, FiniteSets, TLC

\* ---------------------------------------------------------------- bounds
\* Fragments the streaming adapter may deliver in one call.
MaxChunks == 2

\* Rows the session may hold before the request arrives.
MaxPrior == 2

\* Rows the session may hold when a further request arrives.
MaxTitleRows == 2

\* Fragments per turn when two streaming turns run concurrently.
MaxPairChunks == 1

\* Rows by which a long session exceeds the context window.
MaxOver == 1

\* Requests in flight; a specification activates some of them.
Turns == {1, 2}

\* Result of an awaited call or of a res.write: it returns or it throws.
Outcomes == {"ok", "throw"}

\* ------------------------------------------------------------- constants
\* context window: messages.slice(-10)
HistoryWindow == 10

\* "*Real-time info", the marker the handlers look for in the final text.
RealTimeMarker == "*Real-time info"

\* The prefix that makes a turn an image-generation request.
ImageGenTag == "[IMAGE_GENERATION]"

\* Fixed text of the non-streaming handler's error message.
TurnErrorText == <<"Oops! Even I can't fix that mess.">>

\* Fixed text of the assistant message of a failed image generation.
ImageErrorText == <<"Sorry, my artistic talents are offline right now!">>

\* Replies the blocking completion call may resolve to.
Completions == {<<"a">>, <<"a", "b">>}

\* Fixed text of the stream handler's error message.
StreamErrorText == <<"Oops! My circuits are having a moment.">>

\* Text fragments a completion may be made of: plain text, or text that
\* happens to hold the marker.
Fragments == {<<"a">>, <<RealTimeMarker>>}

\* What the enrichment adapter may append to a reply.
Suffixes == {<<RealTimeMarker, "d">>, <<"d">>}

\* What the personal-information filter may put in place of a text.
Redacted == <<"[REDACTED]">>

\* Request bodies: content, role and the optional userLocation.
Payloads ==
    [content : {<<>>, <<"hi">>, <<ImageGenTag, "cat">>},
     role : {"user", "assistant"},
     userLocation : {"absent", "malformed"},
     imageUrl : {"absent", "present"}]

\* Most EventSource objects one hook instance creates.
MaxSources == 3

\* Most messages one hook instance hands to onMessage.
MaxReceived == 2

\* ----------------------------------------------------------------- state
VARIABLES
    kind,             \* per turn: which endpoint the request is for
    pc,               \* per turn: the await the handler is suspended at
    payload,          \* per turn: req.body
    filteredContent,  \* per turn: what filterPersonalInformation returned
    responseComplete, \* per turn: the stream handler's local flag
    clientClosed,     \* per turn: the request's 'close' event has fired
    headersSent,      \* per turn: res.headersSent
    channel,          \* per turn: events written with res.write, in order
    ended,            \* per turn: number of res.end() calls
    httpStatus,       \* per turn: status of the JSON response sent, 0 if none
    calls,            \* per turn: settled calls, in order, with their outcome
    delivered,        \* per turn: fragments the streaming adapter has yielded
    fullAiResponse,   \* per turn: the handler's fullAiResponse / aiResponse
    enhancedResponse, \* per turn: the stream handler's enhancedResponse
    aiMessageId,      \* per turn: the stream handler's temporary message id
                      \* (`temp_${Date.now()}`), <<>> before it is made
    userMessageId,    \* per turn: id of the user message the handler works
                      \* on (userMessage / lastUserMessage), 0 if none
    conversationHistory, \* per turn: ids of the rows passed as context
    messages,         \* Record Store: ChatMessage rows in creation order
    session           \* Record Store: the ChatSession row: its title, the
                      \* number of updateChatSession calls (updates) and
                      \* how many of them wrote the title (titleWrites)

VARIABLES
    imageVersion,     \* generateImage: which version of the function runs
    prompt,           \* generateImage: its argument
    generatorFn,      \* generateImage: what each generator's fn does when
                      \* called: "throw", or the image it resolves to
    genIndex,         \* generateImage: position of the generator awaited,
                      \* 0 before the call
    invoked,          \* generateImage: names of the generators called
    consoleLog,       \* generateImage: the console.log lines, in order
    imageOutcome      \* generateImage: how the call settled

VARIABLES
    imageData,        \* analyzeImage: its argument
    ocrResponse,      \* analyzeImage: what the OCR.space request will give
    imageBBResponse,  \* analyzeImage: what the ImageBB request will give
    analyzerIndex,    \* analyzeImage: position of the analyzer awaited,
                      \* 0 before the call
    consulted,        \* analyzeImage: names of the analyzers called
    analysis          \* analyzeImage: how the call settled

VARIABLES
    mounted,          \* useSSE: the component using the hook is mounted
    url,              \* useSSE: the url argument of the latest render
    effectPending,    \* useSSE: the effect has yet to run for this url
    eventSources,     \* useSSE: every EventSource created, with its url
                      \* and readyState
    eventSource,      \* useSSE: the EventSource the effect's cleanup
                      \* closes over, 0 if the effect returned early
    eventSourceRef,   \* useSSE: eventSourceRef.current, 0 for null
    isConnected,      \* useSSE: the isConnected state
    received,         \* useSSE: the values options.onMessage was called with
    lastEvent         \* useSSE: the callback or function that ran last

turnVars == <<kind, pc, payload, filteredContent, responseComplete, clientClosed, calls,
              delivered, fullAiResponse, enhancedResponse, aiMessageId,
              userMessageId, conversationHistory>>
respVars == <<headersSent, channel, ended, httpStatus>>
storeVars == <<messages, session>>
imageVars == <<imageVersion, prompt, generatorFn, genIndex, invoked,
               consoleLog, imageOutcome>>
analyzeVars == <<imageData, ocrResponse, imageBBResponse, analyzerIndex,
                 consulted, analysis>>
sseVars == <<mounted, url, effectPending, eventSources, eventSource,
             eventSourceRef, isConnected, received, lastEvent>>
vars == <<turnVars, respVars, storeVars, imageVars, analyzeVars, sseVars>>

\* --------------------------------------------------------------- helpers
\* A handler that skipped the schema: every payload is taken as valid.
ValidPayloadAny(p) == TRUE

\* z.object({content: z.string().min(1), role: z.literal("user"),
\*           userLocation: z.object({lat, lon}).optional()}).parse
ValidPayload(p) ==
    /\ Len(p.content) >= 1
    /\ p.role = "user"
    /\ p.userLocation # "malformed"

\* A window taken from the oldest rows: slice(0, n).
FirstN(s, n) == IF Len(s) <= n THEN s ELSE SubSeq(s, 1, n)

\* Array.prototype.slice(-n)
LastN(s, n) == IF Len(s) <= n THEN s ELSE SubSeq(s, Len(s) - n + 1, Len(s))

\* Positions at which pat occurs in s (String.prototype.indexOf candidates).
Occurrences(s, pat) ==
    {i \in 1..(Len(s) - Len(pat) + 1) : SubSeq(s, i, i + Len(pat) - 1) = pat}

\* String.prototype.replace(pat, ''): the first occurrence of pat removed.
ReplaceFirst(s, pat) ==
    IF Occurrences(s, pat) = {} THEN s
    ELSE LET i == CHOOSE k \in Occurrences(s, pat) :
                      \A j \in Occurrences(s, pat) : k <= j
         IN SubSeq(s, 1, i - 1) \o SubSeq(s, i + Len(pat), Len(s))

\* String.prototype.includes("*Real-time info")
IncludesMarker(s) == \E i \in DOMAIN s : s[i] = RealTimeMarker

RECURSIVE Flatten(_)
\* Concatenation of a sequence of strings.
Flatten(ss) == IF ss = <<>> THEN <<>> ELSE Head(ss) \o Flatten(Tail(ss))

\* A ChatMessage row as storage.createChatMessage returns it; turn records
\* which request created it.
Row(t, role, content, metadata) ==
    [id |-> Len(messages) + 1, turn |-> t, role |-> role, content |-> content,
     metadata |-> metadata]

\* metadata.error === true
IsError(row) == "error" \in DOMAIN row.metadata /\ row.metadata.error

\* The instants Date.now() may return when a turn makes its temporary id;
\* two turns may read the same instant.
Times == {1, 2}

\* `temp_${Date.now()}`
TempId(now) == <<"temp_", now>>

\* The temporary id an event carries: aiChunk as messageId, aiComplete as
\* tempId; the other events carry none.
CarriedTempId(t, type) ==
    IF type \in {"aiChunk", "aiComplete"} THEN aiMessageId[t] ELSE <<>>

\* A relay that wrote its events without their payload.
EventNoChunk(t, type, chunk, msgId) ==
    [type |-> type, chunk |-> <<>>, msgId |-> msgId,
     tempId |-> CarriedTempId(t, type), afterClose |-> clientClosed[t]]

\* A relay that made a new temporary id for every event.
EventFreshId(t, type, chunk, msgId) ==
    [type |-> type, chunk |-> chunk, msgId |-> msgId,
     tempId |-> <<"temp_", Len(channel[t])>>,
     afterClose |-> clientClosed[t]]

\* An event as written to the channel: data: {type, chunk | message,
\* messageId | tempId}.  afterClose records whether the 'close' event had
\* fired when it was written.
Event(t, type, chunk, msgId) ==
    [type |-> type, chunk |-> chunk, msgId |-> msgId,
     tempId |-> CarriedTempId(t, type), afterClose |-> clientClosed[t]]

\* A log entry: the call, how it settled, and the flag and the connection
\* as they were at that moment.
Entry(t, call, out) ==
    [call |-> call, out |-> out, flag |-> responseComplete[t],
     closed |-> clientClosed[t]]

\* The call was logged as settled without throwing.
Returned(t, name) ==
    \E i \in DOMAIN calls[t] :
        calls[t][i].call = name /\ calls[t][i].out = "ok"

Logged(t, call, out) == Append(calls[t], Entry(t, call, out))

LogCall(t, call, out) == [calls EXCEPT ![t] = Logged(t, call, out)]

\* A settled call followed by a res.write that threw.
LogCallAndWriteThrow(t, call) ==
    [calls EXCEPT ![t] = Append(Logged(t, call, "ok"),
                                Entry(t, "res.write", "throw"))]

\* -------------------------------------------------- stream handler: catch
\* The outer catch of the stream handler: write an error event and end the
\* response; if that write throws, answer 500 unless the headers are out.
OuterCatch(t, w) ==
    /\ pc' = [pc EXCEPT ![t] = "done"]
    /\ IF w = "ok"
       THEN /\ channel' = [channel EXCEPT
                             ![t] = Append(@, Event(t, "error", <<>>, 0))]
            /\ headersSent' = [headersSent EXCEPT ![t] = TRUE]
            /\ ended' = [ended EXCEPT ![t] = @ + 1]
            /\ UNCHANGED httpStatus
       ELSE /\ UNCHANGED <<channel, ended>>
            /\ headersSent' = [headersSent EXCEPT ![t] = TRUE]
            /\ httpStatus' = [httpStatus EXCEPT
                                ![t] = IF headersSent[t] THEN @ ELSE 500]

\* A handler that ran the streaming call again after a failure.
InnerCatchRetry(t, flag) ==
    pc' = [pc EXCEPT ![t] = IF flag THEN "done" ELSE "streaming"]

\* A handler that swallowed the failure without persisting anything.
InnerCatchSwallow(t, flag) ==
    pc' = [pc EXCEPT ![t] = "done"]

\* Entry of the inner catch: the error message is persisted only while the
\* flag is unset; otherwise the handler returns.
InnerCatch(t, flag) ==
    pc' = [pc EXCEPT ![t] = IF flag THEN "done" ELSE "saveError"]

\* ------------------------------------------------ stream handler: actions
\* POST /api/chat/sessions/:id/messages/stream up to the first await.
StreamRequest(t) ==
    /\ kind[t] = "stream"
    /\ pc[t] = "idle"
    /\ \E p \in Payloads, w \in Outcomes, w2 \in Outcomes :
        /\ payload' = [payload EXCEPT ![t] = p]
        /\ IF ~ValidPayload(p)
           THEN /\ calls' = LogCall(t, "messageSchema.parse", "throw")
                /\ OuterCatch(t, w2)
           ELSE IF w = "throw"
           THEN /\ calls' = LogCallAndWriteThrow(t, "messageSchema.parse")
                /\ OuterCatch(t, w2)
           ELSE /\ calls' = LogCall(t, "messageSchema.parse", "ok")
                /\ channel' = [channel EXCEPT
                                 ![t] = Append(@, Event(t, "connected", <<>>, 0))]
                /\ headersSent' = [headersSent EXCEPT ![t] = TRUE]
                /\ pc' = [pc EXCEPT ![t] = "filter"]
                /\ UNCHANGED <<ended, httpStatus>>
    /\ UNCHANGED <<imageVars, analyzeVars, sseVars, enhancedResponse, aiMessageId,
                   kind, filteredContent, responseComplete, clientClosed,
                   delivered, fullAiResponse, userMessageId,
                   conversationHistory, storeVars>>

\* A close handler that flipped the flag instead of setting it.
CloseHandlerToggle(t) == [responseComplete EXCEPT ![t] = ~@]

\* A relay whose flag was shared by all the requests in flight.
CloseHandlerShared(t) == [u \in Turns |-> TRUE]

\* () => { responseComplete = true; } on the flag of this request, a local
\* of the handler invocation.
CloseHandler(t) == [responseComplete EXCEPT ![t] = TRUE]

\* req.on('close'): fires between two steps of the handler.
ClientClose(t) ==
    /\ kind[t] = "stream"
    /\ pc[t] \notin {"idle", "done"}
    /\ ~clientClosed[t]
    /\ clientClosed' = [clientClosed EXCEPT ![t] = TRUE]
    /\ responseComplete' = CloseHandler(t)
    /\ UNCHANGED <<imageVars, analyzeVars, sseVars, enhancedResponse, aiMessageId,
                   kind, pc, payload, filteredContent, calls, delivered,
                   fullAiResponse, userMessageId, conversationHistory,
                   respVars, storeVars>>

\* await filterPersonalInformation(content) settles.
FilterDone(t) ==
    /\ kind[t] = "stream"
    /\ pc[t] = "filter"
    /\ \E o \in Outcomes, w \in Outcomes,
          f \in {payload[t].content, Redacted} :
        /\ calls' = LogCall(t, "filterPersonalInformation", o)
        /\ IF o = "throw"
           THEN /\ OuterCatch(t, w)
                /\ UNCHANGED filteredContent
           ELSE /\ filteredContent' = [filteredContent EXCEPT ![t] = f]
                /\ pc' = [pc EXCEPT ![t] = "saveUser"]
                /\ UNCHANGED respVars
    /\ UNCHANGED <<imageVars, analyzeVars, sseVars, enhancedResponse, aiMessageId,
                   kind, payload, responseComplete, clientClosed, delivered,
                   fullAiResponse, userMessageId, conversationHistory,
                   storeVars>>

\* await storage.createChatMessage (user) settles; the userMessage event.
SaveUserDone(t) ==
    /\ kind[t] = "stream"
    /\ pc[t] = "saveUser"
    /\ \E o \in Outcomes, w \in Outcomes, w2 \in Outcomes :
        LET row == Row(t, "user", filteredContent[t],
                       [originalLength |-> Len(payload[t].content)]) IN
        IF o = "throw"
        THEN /\ calls' = LogCall(t, "createChatMessage", "throw")
             /\ OuterCatch(t, w2)
             /\ UNCHANGED <<messages, userMessageId>>
        ELSE /\ messages' = Append(messages, row)
             /\ userMessageId' = [userMessageId EXCEPT ![t] = row.id]
             /\ IF responseComplete[t]
                THEN /\ calls' = LogCall(t, "createChatMessage", "ok")
                     /\ pc' = [pc EXCEPT ![t] = "getHistory"]
                     /\ UNCHANGED respVars
                ELSE IF w = "ok"
                THEN /\ calls' = LogCall(t, "createChatMessage", "ok")
                     /\ channel' = [channel EXCEPT ![t] =
                            Append(@, Event(t, "userMessage", <<>>, row.id))]
                     /\ pc' = [pc EXCEPT ![t] = "getHistory"]
                     /\ UNCHANGED <<headersSent, ended, httpStatus>>
                ELSE /\ calls' = LogCallAndWriteThrow(t, "createChatMessage")
                     /\ OuterCatch(t, w2)
    /\ UNCHANGED <<imageVars, analyzeVars, sseVars, enhancedResponse, aiMessageId,
                   kind, payload, filteredContent, responseComplete,
                   clientClosed, delivered, fullAiResponse,
                   conversationHistory, session>>

\* await storage.getSessionMessages settles; the streaming call is started.
GetHistoryDone(t) ==
    /\ kind[t] = "stream"
    /\ pc[t] = "getHistory"
    /\ \E o \in Outcomes, w \in Outcomes :
        /\ calls' = LogCall(t, "getSessionMessages", o)
        /\ IF o = "throw"
           THEN /\ OuterCatch(t, w)
                /\ UNCHANGED <<conversationHistory, aiMessageId>>
           ELSE /\ conversationHistory' = [conversationHistory EXCEPT ![t] =
                      LastN([i \in DOMAIN messages |-> messages[i].id],
                            HistoryWindow)]
                /\ \E now \in Times :
                      aiMessageId' = [aiMessageId EXCEPT ![t] = TempId(now)]
                /\ pc' = [pc EXCEPT ![t] = "streaming"]
                /\ UNCHANGED respVars
    /\ UNCHANGED <<imageVars, analyzeVars, sseVars, enhancedResponse,
                   kind, payload, filteredContent, responseComplete,
                   clientClosed, delivered, fullAiResponse, userMessageId,
                   storeVars>>

\* The adapter yields a fragment: the chunk callback of the streaming call.
StreamChunk(t) ==
    /\ kind[t] = "stream"
    /\ pc[t] = "streaming"
    /\ Len(delivered[t]) < MaxChunks
    /\ \E f \in Fragments, w \in Outcomes :
        /\ delivered' = [delivered EXCEPT ![t] = Append(@, f)]
        /\ IF responseComplete[t]
           THEN UNCHANGED <<channel, responseComplete, calls>>
           ELSE IF w = "ok"
           THEN /\ channel' = [channel EXCEPT ![t] =
                       Append(@, Event(t, "aiChunk", f, 0))]
                /\ UNCHANGED <<responseComplete, calls>>
           ELSE /\ responseComplete' = [responseComplete EXCEPT ![t] = TRUE]
                /\ calls' = LogCall(t, "res.write(aiChunk)", "throw")
                /\ UNCHANGED channel
    /\ UNCHANGED <<imageVars, analyzeVars, sseVars, enhancedResponse, aiMessageId,
                   kind, pc, payload, filteredContent, clientClosed,
                   fullAiResponse, userMessageId, conversationHistory,
                   headersSent, ended, httpStatus, storeVars>>

\* What the streaming call resolves to: the fragments it yielded, assembled.
AssembledResponse(t) == Flatten(delivered[t])

\* A handler without the return after the streaming call.
AfterStreamingNoReturn(flag) == "enhance"

\* if (responseComplete) return;
AfterStreaming(flag) == IF flag THEN "done" ELSE "enhance"

\* await generateSarcasticResponseStream(...) resolves.
StreamReturn(t) ==
    /\ kind[t] = "stream"
    /\ pc[t] = "streaming"
    /\ calls' = LogCall(t, "generateSarcasticResponseStream", "ok")
    /\ fullAiResponse' = [fullAiResponse EXCEPT ![t] = AssembledResponse(t)]
    /\ pc' = [pc EXCEPT ![t] = AfterStreaming(responseComplete[t])]
    /\ UNCHANGED <<imageVars, analyzeVars, sseVars, enhancedResponse, aiMessageId,
                   kind, payload, filteredContent, responseComplete,
                   clientClosed, delivered, userMessageId,
                   conversationHistory, respVars, storeVars>>

\* await generateSarcasticResponseStream(...) rejects.
StreamThrow(t) ==
    /\ kind[t] = "stream"
    /\ pc[t] = "streaming"
    /\ calls' = LogCall(t, "generateSarcasticResponseStream", "throw")
    /\ InnerCatch(t, responseComplete[t])
    /\ UNCHANGED <<imageVars, analyzeVars, sseVars, enhancedResponse, aiMessageId,
                   kind, payload, filteredContent, responseComplete,
                   clientClosed, delivered, fullAiResponse, userMessageId,
                   conversationHistory, respVars, storeVars>>

\* What enhanceResponseWithWebData may resolve to: the reply unchanged, or
\* the reply with live data appended.
Enhanced(reply) == {reply} \cup {reply \o x : x \in Suffixes}

\* An enrichment chunk that carried the whole enhanced text.
AdditionalContentWhole(enhanced, reply) == enhanced

\* enhancedResponse.replace(fullAiResponse, '')
AdditionalContent(enhanced, reply) ==
    ReplaceFirst(enhanced, reply)

\* await enhanceResponseWithWebData(...) settles; the enrichment chunk.
EnhanceDone(t) ==
    /\ kind[t] = "stream"
    /\ pc[t] = "enhance"
    /\ \E o \in Outcomes, w \in Outcomes,
          enhanced \in Enhanced(fullAiResponse[t]) :
        IF o = "throw"
        THEN /\ calls' = LogCall(t, "enhanceResponseWithWebData", "throw")
             /\ InnerCatch(t, responseComplete[t])
             /\ UNCHANGED <<fullAiResponse, channel, enhancedResponse>>
        ELSE /\ enhancedResponse' = [enhancedResponse EXCEPT ![t] = enhanced]
             /\ IF enhanced # fullAiResponse[t] /\ ~responseComplete[t]
                THEN IF w = "ok"
                     THEN /\ calls' = LogCall(t, "enhanceResponseWithWebData",
                                              "ok")
                          /\ channel' = [channel EXCEPT ![t] = Append(@,
                                Event(t, "aiChunk",
                                      AdditionalContent(enhanced,
                                                        fullAiResponse[t]),
                                      0))]
                          /\ fullAiResponse' = [fullAiResponse EXCEPT
                                                  ![t] = enhanced]
                          /\ pc' = [pc EXCEPT ![t] = "saveAi"]
                     ELSE /\ calls' = LogCallAndWriteThrow(t,
                                          "enhanceResponseWithWebData")
                          /\ InnerCatch(t, responseComplete[t])
                          /\ UNCHANGED <<fullAiResponse, channel>>
                ELSE /\ calls' = LogCall(t, "enhanceResponseWithWebData", "ok")
                     /\ pc' = [pc EXCEPT ![t] = "saveAi"]
                     /\ UNCHANGED <<fullAiResponse, channel>>
    /\ UNCHANGED <<imageVars, analyzeVars, sseVars, aiMessageId,
                   kind, payload, filteredContent, responseComplete,
                   clientClosed, delivered, userMessageId,
                   conversationHistory, headersSent, ended, httpStatus,
                   storeVars>>

\* await storage.createChatMessage (assistant) settles; the aiComplete event.
SaveAiDone(t) ==
    /\ kind[t] = "stream"
    /\ pc[t] = "saveAi"
    /\ \E o \in Outcomes, w \in Outcomes :
        LET row == Row(t, "assistant", fullAiResponse[t],
                       [userMessageId |-> userMessageId[t],
                        enhanced |-> IncludesMarker(fullAiResponse[t]),
                        streamed |-> TRUE]) IN
        IF o = "throw"
        THEN /\ calls' = LogCall(t, "createChatMessage", "throw")
             /\ InnerCatch(t, responseComplete[t])
             /\ UNCHANGED <<messages, channel>>
        ELSE /\ messages' = Append(messages, row)
             /\ IF responseComplete[t]
                THEN /\ calls' = LogCall(t, "createChatMessage", "ok")
                     /\ pc' = [pc EXCEPT ![t] = "updateSession"]
                     /\ UNCHANGED channel
                ELSE IF w = "ok"
                THEN /\ calls' = LogCall(t, "createChatMessage", "ok")
                     /\ channel' = [channel EXCEPT ![t] =
                            Append(@, Event(t, "aiComplete", <<>>, row.id))]
                     /\ pc' = [pc EXCEPT ![t] = "updateSession"]
                ELSE /\ calls' = LogCallAndWriteThrow(t, "createChatMessage")
                     /\ InnerCatch(t, responseComplete[t])
                     /\ UNCHANGED channel
    /\ UNCHANGED <<imageVars, analyzeVars, sseVars, enhancedResponse, aiMessageId,
                   kind, payload, filteredContent, responseComplete,
                   clientClosed, delivered, fullAiResponse, userMessageId,
                   conversationHistory, headersSent, ended, httpStatus,
                   session>>

\* await storage.updateChatSession(sessionId, {}) settles; res.end().
UpdateSessionDone(t) ==
    /\ kind[t] = "stream"
    /\ pc[t] = "updateSession"
    /\ \E o \in Outcomes :
        /\ calls' = LogCall(t, "updateChatSession", o)
        /\ IF o = "throw"
           THEN /\ InnerCatch(t, responseComplete[t])
                /\ UNCHANGED <<session, responseComplete, ended>>
           ELSE /\ session' = [session EXCEPT !.updates = @ + 1]
                /\ responseComplete' = [responseComplete EXCEPT ![t] = TRUE]
                /\ ended' = [ended EXCEPT ![t] = @ + 1]
                /\ pc' = [pc EXCEPT ![t] = "done"]
    /\ UNCHANGED <<imageVars, analyzeVars, sseVars, enhancedResponse, aiMessageId,
                   kind, payload, filteredContent, clientClosed, delivered,
                   fullAiResponse, userMessageId, conversationHistory,
                   headersSent, channel, httpStatus, messages>>

\* Inner catch: await storage.createChatMessage (error message) settles;
\* the aiComplete event is written and the response ended.
SaveErrorDone(t) ==
    /\ kind[t] = "stream"
    /\ pc[t] = "saveError"
    /\ \E o \in Outcomes, w \in Outcomes, w2 \in Outcomes :
        LET row == Row(t, "assistant", StreamErrorText,
                       [error |-> TRUE, userMessageId |-> userMessageId[t]]) IN
        IF o = "throw"
        THEN /\ calls' = LogCall(t, "createChatMessage", "throw")
             /\ OuterCatch(t, w2)
             /\ UNCHANGED <<messages, responseComplete>>
        ELSE /\ messages' = Append(messages, row)
             /\ IF w = "ok"
                THEN /\ calls' = LogCall(t, "createChatMessage", "ok")
                     /\ channel' = [channel EXCEPT ![t] =
                            Append(@, Event(t, "aiComplete", <<>>, row.id))]
                     /\ responseComplete' =
                            [responseComplete EXCEPT ![t] = TRUE]
                     /\ ended' = [ended EXCEPT ![t] = @ + 1]
                     /\ pc' = [pc EXCEPT ![t] = "done"]
                     /\ UNCHANGED <<headersSent, httpStatus>>
                ELSE /\ calls' = LogCallAndWriteThrow(t, "createChatMessage")
                     /\ OuterCatch(t, w2)
                     /\ UNCHANGED responseComplete
    /\ UNCHANGED <<imageVars, analyzeVars, sseVars, enhancedResponse, aiMessageId,
                   kind, payload, filteredContent, clientClosed, delivered,
                   fullAiResponse, userMessageId, conversationHistory,
                   session>>

\* ------------------------------------------- non-streaming handler: helpers
\* Variables the non-streaming handler never touches.
streamOnlyVars == <<kind, responseComplete, clientClosed, channel, ended,
                    delivered>>

\* Characters of a word that message.replace(/[^\w\s]/g, '') keeps.
KeptChars(word) ==
    CASE word = "hi" -> 2
      [] word = "cat" -> 3
      [] word = "[REDACTED]" -> 8
      [] word = "[IMAGE_GENERATION]" -> 16
      [] word = "Image analysis:" -> 14
      [] word = "Error analyzing image." -> 21
      [] OTHER -> 1

RECURSIVE CleanedLength(_)
\* cleaned.length: the kept characters of the words and the blanks between.
CleanedLength(message) ==
    IF message = <<>> THEN 0
    ELSE IF Len(message) = 1 THEN KeptChars(Head(message))
    ELSE KeptChars(Head(message)) + 1 + CleanedLength(Tail(message))

\* if (cleaned.length < 10) return "Quick Chat"
TitleMinLength == 10

\* A title that was the message as given.
GenerateTitleVerbatim(message) == message

\* generateTitleFromMessage: "Quick Chat" for a short message, else the
\* cleaned message, capitalised (no message here reaches the 50 characters
\* at which it is cut).
GenerateTitleFromMessage(message) ==
    IF CleanedLength(message) < TitleMinLength THEN <<"Quick Chat">>
    ELSE <<"title of">> \o message

\* content.startsWith('[IMAGE_GENERATION]')
IsImageGeneration(content) == content # <<>> /\ Head(content) = ImageGenTag

\* content.replace('[IMAGE_GENERATION]', '').trim()
ImagePrompt(content) == ReplaceFirst(content, <<ImageGenTag>>)

\* existingMessages.length <= 1: the user message just saved is the only row.
IsFirstMessage(rows) == Len(rows) <= 1

\* A handler that gave every exchange a title.
IsFirstExchangeAlways(rows) == TRUE

\* messages.length <= 2: the exchange just saved is all the session holds.
IsFirstExchange(rows) == Len(rows) <= 2

\* res.json(...) / res.status(s).json(...): the request is answered.
Respond(t, status) ==
    /\ httpStatus' = [httpStatus EXCEPT ![t] = status]
    /\ headersSent' = [headersSent EXCEPT ![t] = TRUE]
    /\ pc' = [pc EXCEPT ![t] = "done"]

\* Entry of the handler's catch: the error message is being persisted.
TurnCatch(t) ==
    /\ pc' = [pc EXCEPT ![t] = "t_saveError"]
    /\ UNCHANGED <<httpStatus, headersSent>>

\* Entry of the catch of the image-generation branch.
ImageCatch(t) ==
    /\ pc' = [pc EXCEPT ![t] = "imgerr_saveUser"]
    /\ UNCHANGED <<httpStatus, headersSent>>

Goto(t, label) ==
    /\ pc' = [pc EXCEPT ![t] = label]
    /\ UNCHANGED <<httpStatus, headersSent>>

\* --------------------------------------- non-streaming handler: main path
\* POST /api/chat/sessions/:id/messages up to the first await.
TurnRequest(t) ==
    /\ kind[t] = "turn"
    /\ pc[t] = "idle"
    /\ \E p \in Payloads :
        /\ payload' = [payload EXCEPT ![t] = p]
        /\ IF ~ValidPayload(p)
           THEN /\ calls' = LogCall(t, "messageSchema.parse", "throw")
                /\ TurnCatch(t)
           ELSE /\ calls' = LogCall(t, "messageSchema.parse", "ok")
                /\ Goto(t, IF IsImageGeneration(p.content) THEN "img_generate"
                           ELSE IF p.imageUrl = "present" THEN "t_analyze"
                           ELSE "t_filter")
    /\ UNCHANGED <<imageVars, analyzeVars, sseVars, enhancedResponse, aiMessageId,
                   streamOnlyVars, filteredContent, fullAiResponse,
                   userMessageId, conversationHistory, storeVars>>

\* await analyzeImage(imageUrl) settles; either way the turn goes on.
TurnAnalyzeDone(t) ==
    /\ kind[t] = "turn"
    /\ pc[t] = "t_analyze"
    /\ \E o \in Outcomes : calls' = LogCall(t, "analyzeImage", o)
    /\ Goto(t, "t_filter")
    /\ UNCHANGED <<imageVars, analyzeVars, sseVars, enhancedResponse, aiMessageId,
                   streamOnlyVars, payload, filteredContent, fullAiResponse,
                   userMessageId, conversationHistory, storeVars>>

\* processedContent: the content, behind the image analysis (or the notice
\* that it failed) when the turn carries an imageUrl.
ProcessedContent(t) ==
    IF payload[t].imageUrl = "absent" THEN payload[t].content
    ELSE IF \E i \in DOMAIN calls[t] :
                calls[t][i].call = "analyzeImage" /\ calls[t][i].out = "ok"
    THEN <<"Image analysis:">> \o payload[t].content
    ELSE <<"Error analyzing image.">> \o payload[t].content

\* await filterPersonalInformation(processedContent) settles.
TurnFilterDone(t) ==
    /\ kind[t] = "turn"
    /\ pc[t] = "t_filter"
    /\ \E o \in Outcomes, f \in {ProcessedContent(t), Redacted} :
        /\ calls' = LogCall(t, "filterPersonalInformation", o)
        /\ IF o = "throw"
           THEN TurnCatch(t) /\ UNCHANGED filteredContent
           ELSE /\ filteredContent' = [filteredContent EXCEPT ![t] = f]
                /\ Goto(t, "t_saveUser")
    /\ UNCHANGED <<imageVars, analyzeVars, sseVars, enhancedResponse, aiMessageId,
                   streamOnlyVars, payload, fullAiResponse, userMessageId,
                   conversationHistory, storeVars>>

\* await storage.createChatMessage (user) settles.
TurnSaveUserDone(t) ==
    /\ kind[t] = "turn"
    /\ pc[t] = "t_saveUser"
    /\ \E o \in Outcomes :
        LET row == Row(t, "user", filteredContent[t],
                       [originalLength |-> Len(payload[t].content),
                        imageUrl |-> payload[t].imageUrl]) IN
        /\ calls' = LogCall(t, "createChatMessage", o)
        /\ IF o = "throw"
           THEN TurnCatch(t) /\ UNCHANGED <<messages, userMessageId>>
           ELSE /\ messages' = Append(messages, row)
                /\ userMessageId' = [userMessageId EXCEPT ![t] = row.id]
                /\ Goto(t, "t_existing")
    /\ UNCHANGED <<imageVars, analyzeVars, sseVars, enhancedResponse, aiMessageId,
                   streamOnlyVars, payload, filteredContent, fullAiResponse,
                   conversationHistory, session>>

\* await storage.getSessionMessages settles: is this the first message?
TurnExistingDone(t) ==
    /\ kind[t] = "turn"
    /\ pc[t] = "t_existing"
    /\ \E o \in Outcomes :
        /\ calls' = LogCall(t, "getSessionMessages", o)
        /\ IF o = "throw"
           THEN TurnCatch(t)
           ELSE Goto(t, IF IsFirstMessage(messages) THEN "t_title"
                                              ELSE "t_getHistory")
    /\ UNCHANGED <<imageVars, analyzeVars, sseVars, enhancedResponse, aiMessageId,
                   streamOnlyVars, payload, filteredContent, fullAiResponse,
                   userMessageId, conversationHistory, storeVars>>

\* await storage.updateChatSession(sessionId, {title: newTitle}) settles.
TurnTitleDone(t) ==
    /\ kind[t] = "turn"
    /\ pc[t] = "t_title"
    /\ \E o \in Outcomes :
        /\ calls' = LogCall(t, "updateChatSession", o)
        /\ IF o = "throw"
           THEN TurnCatch(t) /\ UNCHANGED session
           ELSE /\ session' = [session EXCEPT
                     !.title = GenerateTitleFromMessage(filteredContent[t]),
                     !.titleWrites = @ + 1, !.updates = @ + 1]
                /\ Goto(t, "t_getHistory")
    /\ UNCHANGED <<imageVars, analyzeVars, sseVars, enhancedResponse, aiMessageId,
                   streamOnlyVars, payload, filteredContent, fullAiResponse,
                   userMessageId, conversationHistory, messages>>

\* await storage.getSessionMessages settles: the context of the completion.
TurnGetHistoryDone(t) ==
    /\ kind[t] = "turn"
    /\ pc[t] = "t_getHistory"
    /\ \E o \in Outcomes :
        /\ calls' = LogCall(t, "getSessionMessages", o)
        /\ IF o = "throw"
           THEN TurnCatch(t) /\ UNCHANGED conversationHistory
           ELSE /\ conversationHistory' = [conversationHistory EXCEPT ![t] =
                      LastN([i \in DOMAIN messages |-> messages[i].id],
                            HistoryWindow)]
                /\ Goto(t, "t_generate")
    /\ UNCHANGED <<imageVars, analyzeVars, sseVars, enhancedResponse, aiMessageId,
                   streamOnlyVars, payload, filteredContent, fullAiResponse,
                   userMessageId, storeVars>>

\* await generateSarcasticResponse(...) settles: the blocking completion.
TurnGenerateDone(t) ==
    /\ kind[t] = "turn"
    /\ pc[t] = "t_generate"
    /\ \E o \in Outcomes, reply \in Completions :
        /\ calls' = LogCall(t, "generateSarcasticResponse", o)
        /\ IF o = "throw"
           THEN TurnCatch(t) /\ UNCHANGED fullAiResponse
           ELSE /\ fullAiResponse' = [fullAiResponse EXCEPT ![t] = reply]
                /\ Goto(t, "t_enhance")
    /\ UNCHANGED <<imageVars, analyzeVars, sseVars, enhancedResponse, aiMessageId,
                   streamOnlyVars, payload, filteredContent, userMessageId,
                   conversationHistory, storeVars>>

\* await enhanceResponseWithWebData(...) settles.
TurnEnhanceDone(t) ==
    /\ kind[t] = "turn"
    /\ pc[t] = "t_enhance"
    /\ \E o \in Outcomes, enhanced \in Enhanced(fullAiResponse[t]) :
        /\ calls' = LogCall(t, "enhanceResponseWithWebData", o)
        /\ IF o = "throw"
           THEN TurnCatch(t) /\ UNCHANGED fullAiResponse
           ELSE /\ fullAiResponse' = [fullAiResponse EXCEPT
                                        ![t] = enhanced]
                /\ Goto(t, "t_saveAi")
    /\ UNCHANGED <<imageVars, analyzeVars, sseVars, enhancedResponse, aiMessageId,
                   streamOnlyVars, payload, filteredContent, userMessageId,
                   conversationHistory, storeVars>>

\* await storage.createChatMessage (assistant) settles.
TurnSaveAiDone(t) ==
    /\ kind[t] = "turn"
    /\ pc[t] = "t_saveAi"
    /\ \E o \in Outcomes :
        LET row == Row(t, "assistant", fullAiResponse[t],
                       [userMessageId |-> userMessageId[t],
                        enhanced |-> IncludesMarker(fullAiResponse[t])]) IN
        /\ calls' = LogCall(t, "createChatMessage", o)
        /\ IF o = "throw"
           THEN TurnCatch(t) /\ UNCHANGED messages
           ELSE /\ messages' = Append(messages, row)
                /\ Goto(t, "t_update")
    /\ UNCHANGED <<imageVars, analyzeVars, sseVars, enhancedResponse, aiMessageId,
                   streamOnlyVars, payload, filteredContent, fullAiResponse,
                   userMessageId, conversationHistory, session>>

\* await storage.updateChatSession(sessionId, {}) settles; res.json.
TurnUpdateDone(t) ==
    /\ kind[t] = "turn"
    /\ pc[t] = "t_update"
    /\ \E o \in Outcomes :
        /\ calls' = LogCall(t, "updateChatSession", o)
        /\ IF o = "throw"
           THEN TurnCatch(t) /\ UNCHANGED session
           ELSE /\ session' = [session EXCEPT !.updates = @ + 1]
                /\ Respond(t, 200)
    /\ UNCHANGED <<imageVars, analyzeVars, sseVars, enhancedResponse, aiMessageId,
                   streamOnlyVars, payload, filteredContent, fullAiResponse,
                   userMessageId, conversationHistory, messages>>

\* The catch: await storage.createChatMessage (error message) settles and
\* the 500 body is sent; if it rejects, the handler's promise rejects and
\* nothing is sent.
TurnSaveErrorDone(t) ==
    /\ kind[t] = "turn"
    /\ pc[t] = "t_saveError"
    /\ \E o \in Outcomes :
        LET row == Row(t, "assistant", TurnErrorText, [error |-> TRUE]) IN
        /\ calls' = LogCall(t, "createChatMessage", o)
        /\ IF o = "throw"
           THEN /\ pc' = [pc EXCEPT ![t] = "done"]
                /\ UNCHANGED <<messages, httpStatus, headersSent>>
           ELSE /\ messages' = Append(messages, row)
                /\ Respond(t, 500)
    /\ UNCHANGED <<imageVars, analyzeVars, sseVars, enhancedResponse, aiMessageId,
                   streamOnlyVars, payload, filteredContent, fullAiResponse,
                   userMessageId, conversationHistory, session>>

\* ------------------------------- non-streaming handler: image generation
\* await generateImage(prompt) settles.
ImageGenerateDone(t) ==
    /\ kind[t] = "turn"
    /\ pc[t] = "img_generate"
    /\ \E o \in Outcomes :
        /\ calls' = LogCall(t, "generateImage", o)
        /\ IF o = "throw" THEN ImageCatch(t) ELSE Goto(t, "img_saveUser")
    /\ UNCHANGED <<imageVars, analyzeVars, sseVars, enhancedResponse, aiMessageId,
                   streamOnlyVars, payload, filteredContent, fullAiResponse,
                   userMessageId, conversationHistory, storeVars>>

\* await storage.createChatMessage (user: "Generate an image: ...") settles.
ImageSaveUserDone(t) ==
    /\ kind[t] = "turn"
    /\ pc[t] = "img_saveUser"
    /\ \E o \in Outcomes :
        LET row == Row(t, "user",
                       <<"Generate an image:">> \o ImagePrompt(payload[t].content),
                       <<>>) IN
        /\ calls' = LogCall(t, "createChatMessage", o)
        /\ IF o = "throw"
           THEN ImageCatch(t) /\ UNCHANGED <<messages, userMessageId>>
           ELSE /\ messages' = Append(messages, row)
                /\ userMessageId' = [userMessageId EXCEPT ![t] = row.id]
                /\ Goto(t, "img_saveAi")
    /\ UNCHANGED <<imageVars, analyzeVars, sseVars, enhancedResponse, aiMessageId,
                   streamOnlyVars, payload, filteredContent, fullAiResponse,
                   conversationHistory, session>>

\* await storage.createChatMessage (assistant: the generated image) settles.
ImageSaveAiDone(t) ==
    /\ kind[t] = "turn"
    /\ pc[t] = "img_saveAi"
    /\ \E o \in Outcomes :
        LET text == <<"Here's your generated image for">>
                        \o ImagePrompt(payload[t].content)
            row == Row(t, "assistant", text, <<>>) IN
        /\ calls' = LogCall(t, "createChatMessage", o)
        /\ IF o = "throw"
           THEN ImageCatch(t) /\ UNCHANGED <<messages, fullAiResponse>>
           ELSE /\ messages' = Append(messages, row)
                /\ fullAiResponse' = [fullAiResponse EXCEPT ![t] = text]
                /\ Goto(t, "img_getMessages")
    /\ UNCHANGED <<imageVars, analyzeVars, sseVars, enhancedResponse, aiMessageId,
                   streamOnlyVars, payload, filteredContent, userMessageId,
                   conversationHistory, session>>

\* await storage.getSessionMessages settles: the first exchange gets a title.
ImageGetMessagesDone(t) ==
    /\ kind[t] = "turn"
    /\ pc[t] = "img_getMessages"
    /\ \E o \in Outcomes :
        /\ calls' = LogCall(t, "getSessionMessages", o)
        /\ IF o = "throw" THEN ImageCatch(t)
           ELSE IF IsFirstExchange(messages) THEN Goto(t, "img_title")
           ELSE Respond(t, 200)
    /\ UNCHANGED <<imageVars, analyzeVars, sseVars, enhancedResponse, aiMessageId,
                   streamOnlyVars, payload, filteredContent, fullAiResponse,
                   userMessageId, conversationHistory, storeVars>>

\* await storage.updateChatSession(sessionId, {title}) settles; res.json.
ImageTitleDone(t) ==
    /\ kind[t] = "turn"
    /\ pc[t] = "img_title"
    /\ \E o \in Outcomes :
        /\ calls' = LogCall(t, "updateChatSession", o)
        /\ IF o = "throw"
           THEN ImageCatch(t) /\ UNCHANGED session
           ELSE /\ session' = [session EXCEPT
                     !.title = GenerateTitleFromMessage(
                                   ImagePrompt(payload[t].content)),
                     !.titleWrites = @ + 1, !.updates = @ + 1]
                /\ Respond(t, 200)
    /\ UNCHANGED <<imageVars, analyzeVars, sseVars, enhancedResponse, aiMessageId,
                   streamOnlyVars, payload, filteredContent, fullAiResponse,
                   userMessageId, conversationHistory, messages>>

\* Branch catch: await storage.createChatMessage (user) settles.
ImageErrSaveUserDone(t) ==
    /\ kind[t] = "turn"
    /\ pc[t] = "imgerr_saveUser"
    /\ \E o \in Outcomes :
        LET row == Row(t, "user",
                       <<"Generate an image:">> \o ImagePrompt(payload[t].content),
                       <<>>) IN
        /\ calls' = LogCall(t, "createChatMessage", o)
        /\ IF o = "throw"
           THEN TurnCatch(t) /\ UNCHANGED <<messages, userMessageId>>
           ELSE /\ messages' = Append(messages, row)
                /\ userMessageId' = [userMessageId EXCEPT ![t] = row.id]
                /\ Goto(t, "imgerr_saveAi")
    /\ UNCHANGED <<imageVars, analyzeVars, sseVars, enhancedResponse, aiMessageId,
                   streamOnlyVars, payload, filteredContent, fullAiResponse,
                   conversationHistory, session>>

\* Branch catch: await storage.createChatMessage (assistant) settles; res.json.
ImageErrSaveAiDone(t) ==
    /\ kind[t] = "turn"
    /\ pc[t] = "imgerr_saveAi"
    /\ \E o \in Outcomes :
        LET row == Row(t, "assistant", ImageErrorText, <<>>) IN
        /\ calls' = LogCall(t, "createChatMessage", o)
        /\ IF o = "throw"
           THEN TurnCatch(t) /\ UNCHANGED <<messages, fullAiResponse>>
           ELSE /\ messages' = Append(messages, row)
                /\ fullAiResponse' = [fullAiResponse EXCEPT
                                        ![t] = ImageErrorText]
                /\ Respond(t, 200)
    /\ UNCHANGED <<imageVars, analyzeVars, sseVars, enhancedResponse, aiMessageId,
                   streamOnlyVars, payload, filteredContent, userMessageId,
                   conversationHistory, session>>

\* ------------------------------------------- messages-with-image handler
\* What the handler puts in place of an analysis that failed.
AnalysisFallbackText == <<"I can see an image, but I'm having trouble">>

\* What the handler puts in place of a completion that failed.
WithImageFallbackText == <<"Well, I saw your image but my brain circuits">>

\* `${content}\n\n[Image uploaded: ${imageAnalysis}]`
WithImageUserContent(t) ==
    payload[t].content \o <<"[Image uploaded:">>
        \o (IF Returned(t, "analyzeImage") THEN <<"analysis">>
            ELSE AnalysisFallbackText)

\* The handler's catch: res.status(500).json(...); nothing is persisted.
WithImageCatch(t) == Respond(t, 500)

\* POST /api/chat/sessions/:id/messages-with-image up to the first await.
\* The body is not validated; imageUrl stands for req.file here.
WithImageRequest(t) ==
    /\ kind[t] = "withImage"
    /\ pc[t] = "idle"
    /\ \E p \in Payloads :
        /\ payload' = [payload EXCEPT ![t] = p]
        /\ IF p.imageUrl = "absent"
           THEN Respond(t, 400)
           ELSE Goto(t, "w_analyze")
    /\ UNCHANGED <<imageVars, analyzeVars, sseVars, enhancedResponse, aiMessageId,
                   streamOnlyVars, filteredContent, calls, fullAiResponse,
                   userMessageId, conversationHistory, storeVars>>

\* await analyzeImage(imageBase64) settles; a failure is caught in place.
WithImageAnalyzeDone(t) ==
    /\ kind[t] = "withImage"
    /\ pc[t] = "w_analyze"
    /\ \E o \in Outcomes : calls' = LogCall(t, "analyzeImage", o)
    /\ Goto(t, "w_saveUser")
    /\ UNCHANGED <<imageVars, analyzeVars, sseVars, enhancedResponse, aiMessageId,
                   streamOnlyVars, payload, filteredContent, fullAiResponse,
                   userMessageId, conversationHistory, storeVars>>

\* await storage.createChatMessage (user) settles.
WithImageSaveUserDone(t) ==
    /\ kind[t] = "withImage"
    /\ pc[t] = "w_saveUser"
    /\ \E o \in Outcomes :
        LET row == Row(t, "user", WithImageUserContent(t), <<>>) IN
        /\ calls' = LogCall(t, "createChatMessage", o)
        /\ IF o = "throw"
           THEN WithImageCatch(t) /\ UNCHANGED <<messages, userMessageId>>
           ELSE /\ messages' = Append(messages, row)
                /\ userMessageId' = [userMessageId EXCEPT ![t] = row.id]
                /\ Goto(t, "w_generate")
    /\ UNCHANGED <<imageVars, analyzeVars, sseVars, enhancedResponse, aiMessageId,
                   streamOnlyVars, payload, filteredContent, fullAiResponse,
                   conversationHistory, session>>

\* await generateSarcasticResponse(contextualPrompt, userLocation) settles;
\* a failure is caught in place.
WithImageGenerateDone(t) ==
    /\ kind[t] = "withImage"
    /\ pc[t] = "w_generate"
    /\ \E o \in Outcomes, reply \in Completions :
        /\ calls' = LogCall(t, "generateSarcasticResponse", o)
        /\ fullAiResponse' = [fullAiResponse EXCEPT ![t] =
               IF o = "throw" THEN WithImageFallbackText ELSE reply]
    /\ Goto(t, "w_saveAi")
    /\ UNCHANGED <<imageVars, analyzeVars, sseVars, enhancedResponse, aiMessageId,
                   streamOnlyVars, payload, filteredContent, userMessageId,
                   conversationHistory, storeVars>>

\* await storage.createChatMessage (assistant) settles.
WithImageSaveAiDone(t) ==
    /\ kind[t] = "withImage"
    /\ pc[t] = "w_saveAi"
    /\ \E o \in Outcomes :
        LET row == Row(t, "assistant", fullAiResponse[t], <<>>) IN
        /\ calls' = LogCall(t, "createChatMessage", o)
        /\ IF o = "throw"
           THEN WithImageCatch(t) /\ UNCHANGED messages
           ELSE /\ messages' = Append(messages, row)
                /\ Goto(t, "w_getMessages")
    /\ UNCHANGED <<imageVars, analyzeVars, sseVars, enhancedResponse, aiMessageId,
                   streamOnlyVars, payload, filteredContent, fullAiResponse,
                   userMessageId, conversationHistory, session>>

\* await storage.getSessionMessages settles: the first message gets a title.
WithImageGetMessagesDone(t) ==
    /\ kind[t] = "withImage"
    /\ pc[t] = "w_getMessages"
    /\ \E o \in Outcomes :
        /\ calls' = LogCall(t, "getSessionMessages", o)
        /\ IF o = "throw" THEN WithImageCatch(t)
           ELSE IF IsFirstExchange(messages) THEN Goto(t, "w_title")
           ELSE Respond(t, 200)
    /\ UNCHANGED <<imageVars, analyzeVars, sseVars, enhancedResponse, aiMessageId,
                   streamOnlyVars, payload, filteredContent, fullAiResponse,
                   userMessageId, conversationHistory, storeVars>>

\* await storage.updateChatSession(sessionId, {title}) settles; res.json.
WithImageTitleDone(t) ==
    /\ kind[t] = "withImage"
    /\ pc[t] = "w_title"
    /\ \E o \in Outcomes :
        /\ calls' = LogCall(t, "updateChatSession", o)
        /\ IF o = "throw"
           THEN WithImageCatch(t) /\ UNCHANGED session
           ELSE /\ session' = [session EXCEPT
                     !.title = GenerateTitleFromMessage(payload[t].content),
                     !.titleWrites = @ + 1, !.updates = @ + 1]
                /\ Respond(t, 200)
    /\ UNCHANGED <<imageVars, analyzeVars, sseVars, enhancedResponse, aiMessageId,
                   streamOnlyVars, payload, filteredContent, fullAiResponse,
                   userMessageId, conversationHistory, messages>>

\* --------------------------------------------------- regenerate handler
\* A handler without the length guard.
TooFewMessagesNever(rows) == FALSE

\* messages.length < 2
TooFewMessages(rows) == Len(rows) < 2

\* A handler that took the first user message of the session.
FirstUserMessage(rows) ==
    LET users == {i \in DOMAIN rows : rows[i].role = "user"}
    IN IF users = {} THEN 0
       ELSE CHOOSE i \in users : \A j \in users : i <= j

\* messages.filter(msg => msg.role === "user").pop(): the index of the last
\* user row, 0 when there is none.
LastUserMessage(rows) ==
    LET users == {i \in DOMAIN rows : rows[i].role = "user"}
    IN IF users = {} THEN 0
       ELSE CHOOSE i \in users : \A j \in users : j <= i

\* Array.prototype.slice(0, -1)
AllButLast(s) == SubSeq(s, 1, Len(s) - 1)

\* POST /api/chat/sessions/:id/regenerate up to the first await.
RegenRequest(t) ==
    /\ kind[t] = "regen"
    /\ pc[t] = "idle"
    /\ Goto(t, "r_getMessages")
    /\ UNCHANGED <<imageVars, analyzeVars, sseVars, enhancedResponse, aiMessageId,
                   streamOnlyVars, payload, filteredContent, calls,
                   fullAiResponse, userMessageId, conversationHistory,
                   storeVars>>

\* await storage.getSessionMessages settles: the two 400 guards, the last
\* user message and the context of the completion.
RegenGetMessagesDone(t) ==
    /\ kind[t] = "regen"
    /\ pc[t] = "r_getMessages"
    /\ \E o \in Outcomes :
        /\ calls' = LogCall(t, "getSessionMessages", o)
        /\ IF o = "throw"
           THEN /\ Respond(t, 500)
                /\ UNCHANGED <<userMessageId, conversationHistory>>
           ELSE IF TooFewMessages(messages) \/ LastUserMessage(messages) = 0
           THEN /\ Respond(t, 400)
                /\ UNCHANGED <<userMessageId, conversationHistory>>
           ELSE /\ userMessageId' = [userMessageId EXCEPT ![t] =
                      messages[LastUserMessage(messages)].id]
                /\ conversationHistory' = [conversationHistory EXCEPT ![t] =
                      LastN(AllButLast([i \in DOMAIN messages |->
                                            messages[i].id]),
                            HistoryWindow)]
                /\ Goto(t, "r_generate")
    /\ UNCHANGED <<imageVars, analyzeVars, sseVars, enhancedResponse, aiMessageId,
                   streamOnlyVars, payload, filteredContent, fullAiResponse,
                   storeVars>>

\* await generateSarcasticResponse(lastUserMessage.content, ...) settles.
RegenGenerateDone(t) ==
    /\ kind[t] = "regen"
    /\ pc[t] = "r_generate"
    /\ \E o \in Outcomes, reply \in Completions :
        /\ calls' = LogCall(t, "generateSarcasticResponse", o)
        /\ IF o = "throw"
           THEN Respond(t, 500) /\ UNCHANGED fullAiResponse
           ELSE /\ fullAiResponse' = [fullAiResponse EXCEPT ![t] = reply]
                /\ Goto(t, "r_enhance")
    /\ UNCHANGED <<imageVars, analyzeVars, sseVars, enhancedResponse, aiMessageId,
                   streamOnlyVars, payload, filteredContent, userMessageId,
                   conversationHistory, storeVars>>

\* await enhanceResponseWithWebData(lastUserMessage.content, aiResponse)
\* settles.
RegenEnhanceDone(t) ==
    /\ kind[t] = "regen"
    /\ pc[t] = "r_enhance"
    /\ \E o \in Outcomes, enhanced \in Enhanced(fullAiResponse[t]) :
        /\ calls' = LogCall(t, "enhanceResponseWithWebData", o)
        /\ IF o = "throw"
           THEN Respond(t, 500) /\ UNCHANGED fullAiResponse
           ELSE /\ fullAiResponse' = [fullAiResponse EXCEPT
                                        ![t] = enhanced]
                /\ Goto(t, "r_save")
    /\ UNCHANGED <<imageVars, analyzeVars, sseVars, enhancedResponse, aiMessageId,
                   streamOnlyVars, payload, filteredContent, userMessageId,
                   conversationHistory, storeVars>>

\* await storage.createChatMessage (the regenerated reply) settles; res.json.
RegenSaveDone(t) ==
    /\ kind[t] = "regen"
    /\ pc[t] = "r_save"
    /\ \E o \in Outcomes :
        LET row == Row(t, "assistant", fullAiResponse[t],
                       [regenerated |-> TRUE,
                        originalMessageId |-> userMessageId[t]]) IN
        /\ calls' = LogCall(t, "createChatMessage", o)
        /\ IF o = "throw"
           THEN Respond(t, 500) /\ UNCHANGED messages
           ELSE /\ messages' = Append(messages, row)
                /\ Respond(t, 200)
    /\ UNCHANGED <<imageVars, analyzeVars, sseVars, enhancedResponse, aiMessageId,
                   streamOnlyVars, payload, filteredContent, fullAiResponse,
                   userMessageId, conversationHistory, session>>

RegenStep(t) ==
    \/ RegenRequest(t)
    \/ RegenGetMessagesDone(t)
    \/ RegenGenerateDone(t)
    \/ RegenEnhanceDone(t)
    \/ RegenSaveDone(t)

\* ------------------------------------------ generateImage: the fallback
\* The versions of generateImage: the loop over named generators of
\* vision.ts and of part_001:354, and the nested try/catch of part_001:624.
ImageVersions == {"vision.ts:491", "part_001:354", "part_001:624"}

\* const generators = [{name, fn}, ...], in list order.
Generators(version) ==
    IF version = "vision.ts:491"
    THEN <<"Pollinations AI", "Hugging Face AI", "Unsplash Themed">>
    ELSE IF version = "part_001:354"
    THEN <<"Pollinations AI", "Hugging Face", "Replicate", "Unsplash Themed">>
    ELSE <<"Pollinations", "Prodia", "Unsplash">>

\* Images a generator may resolve to.
ImageValues == {"X", "Y"}

\* Arguments of generateImage.
Prompts == {<<"cat">>, <<"dog">>}

\* Message of the Error the version of part_001:624 throws.
TalentsOfflineText == <<"Sorry, my artistic talents are offline right now!">>

\* createEnhancedSVGImage(prompt) / createEnhancedFallbackImage(prompt): a
\* data URL synthesized locally from the prompt.
CreateEnhancedSVGImage(p) == <<"data:image/svg+xml;base64">> \o p

\* A console.log line about a generator.
Line(what, name) == [line |-> what, name |-> name]

\* A version that answered with the placeholder although a generator
\* had resolved.
ReturnedPlaceholder(result, p) ==
    [kind |-> "value", value |-> CreateEnhancedSVGImage(p)]

\* return result
ReturnedOnSuccess(result, p) == [kind |-> "value", value |-> <<result>>]

\* A loop that called the generator that had just failed once more.
AfterFailureRetry(i) == i

\* continue: the loop goes on to the next generator.
AfterFailure(i) == i + 1

\* A version that raised whenever no generator was left.
ExhaustedRaises(version, p) ==
    [kind |-> "error", message |-> TalentsOfflineText]

\* How the call settles when no generator is left: the loop versions return
\* the locally synthesized image, the nested version throws a fixed Error.
Exhausted(version, p) ==
    IF version = "part_001:624"
    THEN [kind |-> "error", message |-> TalentsOfflineText]
    ELSE [kind |-> "value", value |-> CreateEnhancedSVGImage(p)]

\* generateImage(prompt) up to the first await: the first generator is
\* called.
GenerateImageCall ==
    /\ genIndex = 0
    /\ genIndex' = 1
    /\ invoked' = <<Generators(imageVersion)[1]>>
    /\ consoleLog' = <<Line("Starting", ""),
                       Line("Trying", Generators(imageVersion)[1])>>
    /\ UNCHANGED <<imageVersion, prompt, generatorFn, imageOutcome>>
    /\ UNCHANGED <<turnVars, respVars, storeVars, analyzeVars, sseVars>>

\* await generator.fn(prompt) settles: its result is returned, or the catch
\* logs the failure and the next generator is called; past the last one the
\* call settles as Exhausted.
GeneratorSettled ==
    /\ genIndex \in DOMAIN Generators(imageVersion)
    /\ imageOutcome.kind = "pending"
    /\ LET gens == Generators(imageVersion)
           name == gens[genIndex]
           next == AfterFailure(genIndex)
       IN IF generatorFn[name] # "throw"
          THEN /\ imageOutcome' = ReturnedOnSuccess(generatorFn[name], prompt)
               /\ consoleLog' = IF imageVersion = "part_001:624"
                                   /\ genIndex = Len(gens)
                                THEN consoleLog
                                ELSE Append(consoleLog,
                                            Line("successful", name))
               /\ UNCHANGED <<genIndex, invoked>>
          ELSE /\ genIndex' = next
               /\ IF next \in DOMAIN gens
                  THEN /\ invoked' = Append(invoked, gens[next])
                       /\ consoleLog' = consoleLog \o
                             <<Line("failed", name), Line("Trying", gens[next])>>
                       /\ UNCHANGED imageOutcome
                  ELSE /\ imageOutcome' = Exhausted(imageVersion, prompt)
                       /\ consoleLog' = consoleLog \o
                             <<Line("failed", name), Line("All failed", "")>>
                       /\ UNCHANGED invoked
    /\ UNCHANGED <<imageVersion, prompt, generatorFn>>
    /\ UNCHANGED <<turnVars, respVars, storeVars, analyzeVars, sseVars>>

\* ------------------------------------------- services/vision.ts: analyze
\* The analyzers of analyzeImage, in the order of its try blocks.
Analyzers == <<"OCR.space", "ImageBB", "enhanced fallback">>

\* Arguments of analyzeImage: a data URL of a JPEG or of a PNG, base64 text
\* without the data: prefix, and a value that is not a string (req.body is
\* passed on as it came).
ImageDatas ==
    {[isString |-> TRUE, mime |-> "image/jpeg", header |-> "ffd8ff"],
     [isString |-> TRUE, mime |-> "image/png", header |-> "89504e47"],
     [isString |-> TRUE, mime |-> "none", header |-> "other"],
     [isString |-> FALSE, mime |-> "none", header |-> "other"]}

\* What the OCR.space request gives: fetch rejects, the response is not ok,
\* ParsedResults is missing or empty, ParsedText is blank, ParsedText holds
\* text.
OcrResponses == {"reject", "not ok", "no results", "blank", "text"}

\* What the ImageBB request gives: fetch rejects, the response is not ok,
\* data.success is falsy, or an upload record with its width to height
\* ratio above 1.5, below 0.7, in between, or without dimensions.
ImageBBResponses ==
    {"reject", "not ok", "no success", "wide", "tall", "square", "no dims"}

Described(text) == [kind |-> "value", value |-> text]

AnalyzerThrew(message) == [kind |-> "throw", message |-> message]

\* analyzeImageWithOCRSpace: imageBase64.includes throws on a value that is
\* not a string; a description is returned only for an ok response with a
\* non-blank ParsedText; everything else throws, and the catch rethrows.
AnalyzeImageWithOCRSpace(img, resp) ==
    IF ~img.isString THEN AnalyzerThrew("TypeError")
    ELSE IF resp = "reject" THEN AnalyzerThrew("fetch failed")
    ELSE IF resp = "text"
    THEN Described(<<"I can see text in this image", "ParsedText">>)
    ELSE AnalyzerThrew("OCR.space failed")

\* analyzeImageWithImageBB: a description is returned only for an ok
\* response with data.success and data.data; everything else throws, and
\* the catch rethrows.
AnalyzeImageWithImageBB(img, resp) ==
    IF ~img.isString THEN AnalyzerThrew("TypeError")
    ELSE IF resp = "reject" THEN AnalyzerThrew("fetch failed")
    ELSE IF resp \in {"wide", "tall", "square", "no dims"}
    THEN Described(<<"I can see an uploaded image", "extension">>
                   \o (IF resp = "no dims" THEN <<>> ELSE <<resp>>)
                   \o <<"successfully processed">>)
    ELSE AnalyzerThrew("ImageBB analysis failed")

\* The sentence the enhanced fallback adds for the first bytes of the image.
HeaderSentence(header) ==
    IF header = "ffd8ff" THEN <<"This is a JPEG photograph">>
    ELSE IF header = "89504e47" THEN <<"This is a PNG image">>
    ELSE <<>>

\* analyzeImageWithEnhancedFallback: built from the bytes alone, no request;
\* whatever throws inside is caught and answered with a fixed text.
AnalyzeImageWithEnhancedFallback(img) ==
    IF ~img.isString
    THEN Described(<<"my vision circuits are recalibrating">>)
    ELSE Described(<<"I can see an uploaded image",
                     IF img.mime = "none" THEN "unknown" ELSE img.mime>>
                   \o HeaderSentence(img.header)
                   \o <<"Based on the technical analysis">>)

\* What the analyzer at position i gives for this call.
AnalyzerResult(i) ==
    IF i = 1 THEN AnalyzeImageWithOCRSpace(imageData, ocrResponse)
    ELSE IF i = 2 THEN AnalyzeImageWithImageBB(imageData, imageBBResponse)
    ELSE AnalyzeImageWithEnhancedFallback(imageData)

\* A function that went from a failed analyzer straight to the one after
\* the next.
NextAnalyzerSkipping(i) == i + 2

\* The catch of a try block falls through to the next try block.
NextAnalyzer(i) == i + 1

\* The last catch of analyzeImage: a fixed text is returned.
AllAnalyzersFailedText == <<"my vision systems are taking a coffee break">>

\* analyzeImage(imageData) up to the first await: OCR.space is called.
AnalyzeImageCall ==
    /\ analyzerIndex = 0
    /\ analyzerIndex' = 1
    /\ consulted' = <<Analyzers[1]>>
    /\ UNCHANGED <<imageData, ocrResponse, imageBBResponse, analysis>>
    /\ UNCHANGED <<turnVars, respVars, storeVars, imageVars, sseVars>>

\* The awaited analyzer settles: its description is returned, or the catch
\* logs and the next analyzer is called; past the last one the fixed text is
\* returned.
AnalyzerSettled ==
    /\ analyzerIndex \in DOMAIN Analyzers
    /\ analysis.kind = "pending"
    /\ LET result == AnalyzerResult(analyzerIndex)
           next == NextAnalyzer(analyzerIndex)
       IN IF result.kind = "value"
          THEN /\ analysis' = result
               /\ UNCHANGED <<analyzerIndex, consulted>>
          ELSE /\ analyzerIndex' = next
               /\ IF next \in DOMAIN Analyzers
                  THEN /\ consulted' = Append(consulted, Analyzers[next])
                       /\ UNCHANGED analysis
                  ELSE /\ analysis' = Described(AllAnalyzersFailedText)
                       /\ UNCHANGED consulted
    /\ UNCHANGED <<imageData, ocrResponse, imageBBResponse>>
    /\ UNCHANGED <<turnVars, respVars, storeVars, imageVars, sseVars>>

\* ---------------------------------------- client/src/hooks/use-sse.tsx
\* The url argument: null, or the address of a stream.
NullUrl == "null"

Urls == {"/api/a", "/api/b"}

\* event.data of a message: two JSON texts, a broken one and an empty one.
EventDatas == {"{\"n\":1}", "1", "{oops", ""}

\* JSON.parse(event.data): the value, or a SyntaxError.
JsonParse(data) ==
    IF data = "{\"n\":1}"
    THEN [ok |-> TRUE, value |-> [type |-> "object", n |-> 1]]
    ELSE IF data = "1"
    THEN [ok |-> TRUE, value |-> [type |-> "number", n |-> 1]]
    ELSE [ok |-> FALSE, value |-> [type |-> "SyntaxError", n |-> 0]]

\* A cleanup that left its EventSource as it was.
ClosedNot(sources, i) == sources

\* eventSource.close(): readyState becomes CLOSED; closing twice changes
\* nothing.
Closed(sources, i) ==
    IF i = 0 THEN sources
    ELSE [sources EXCEPT ![i].readyState = "closed"]

Ran(call, data) == [call |-> call, data |-> data]

\* A render with another url: the effect is scheduled (deps [url]).
Render(u) ==
    /\ mounted /\ ~effectPending
    /\ u # url
    /\ u # NullUrl => Len(eventSources) < MaxSources
    /\ url' = u
    /\ effectPending' = TRUE
    /\ lastEvent' = Ran("render", u)
    /\ UNCHANGED <<mounted, eventSources, eventSource, eventSourceRef,
                   isConnected, received>>
    /\ UNCHANGED <<turnVars, respVars, storeVars, imageVars, analyzeVars>>

\* The effect runs: the cleanup of the previous run, if it returned one
\* (close, setIsConnected(false), onClose), then the body: nothing for a null
\* url, else a new EventSource kept in the ref.
RunEffect ==
    /\ mounted /\ effectPending
    /\ effectPending' = FALSE
    /\ LET cleaned == Closed(eventSources, eventSource)
           created == Len(eventSources) + 1
       IN IF url = NullUrl
          THEN /\ eventSources' = cleaned
               /\ eventSource' = 0
               /\ UNCHANGED eventSourceRef
          ELSE /\ eventSources' =
                     Append(cleaned, [url |-> url,
                                      readyState |-> "connecting"])
               /\ eventSource' = created
               /\ eventSourceRef' = created
    /\ isConnected' = IF eventSource # 0 THEN FALSE ELSE isConnected
    /\ lastEvent' = Ran("effect", url)
    /\ UNCHANGED <<mounted, url, received>>
    /\ UNCHANGED <<turnVars, respVars, storeVars, imageVars, analyzeVars>>

\* eventSource.onopen: the connection is established.
OnOpen ==
    /\ \E i \in DOMAIN eventSources :
        /\ eventSources[i].readyState = "connecting"
        /\ eventSources' = [eventSources EXCEPT ![i].readyState = "open"]
    /\ isConnected' = TRUE
    /\ lastEvent' = Ran("onopen", "")
    /\ UNCHANGED <<mounted, url, effectPending, eventSource, eventSourceRef,
                   received>>
    /\ UNCHANGED <<turnVars, respVars, storeVars, imageVars, analyzeVars>>

\* eventSource.onmessage: the data is parsed and handed to onMessage; a
\* SyntaxError is caught and logged.
OnMessage ==
    /\ \E i \in DOMAIN eventSources : eventSources[i].readyState = "open"
    /\ \E data \in EventDatas :
        /\ lastEvent' = Ran("onmessage", data)
        /\ IF JsonParse(data).ok
           THEN /\ Len(received) < MaxReceived
                /\ received' = Append(received, JsonParse(data).value)
           ELSE UNCHANGED received
    /\ UNCHANGED <<mounted, url, effectPending, eventSources, eventSource,
                   eventSourceRef, isConnected>>
    /\ UNCHANGED <<turnVars, respVars, storeVars, imageVars, analyzeVars>>

\* eventSource.onerror: the connection was lost and is retried, or failed
\* for good.
OnError ==
    /\ \E i \in DOMAIN eventSources, after \in {"connecting", "closed"} :
        /\ eventSources[i].readyState # "closed"
        /\ eventSources' = [eventSources EXCEPT ![i].readyState = after]
    /\ isConnected' = FALSE
    /\ lastEvent' = Ran("onerror", "")
    /\ UNCHANGED <<mounted, url, effectPending, eventSource, eventSourceRef,
                   received>>
    /\ UNCHANGED <<turnVars, respVars, storeVars, imageVars, analyzeVars>>

\* close(), as returned by the hook.
Close ==
    /\ eventSources' = Closed(eventSources, eventSourceRef)
    /\ isConnected' = FALSE
    /\ lastEvent' = Ran("close", "")
    /\ UNCHANGED <<mounted, url, effectPending, eventSource, eventSourceRef,
                   received>>
    /\ UNCHANGED <<turnVars, respVars, storeVars, imageVars, analyzeVars>>

\* The component unmounts: the cleanup of the last effect run, if it
\* returned one.
Unmount ==
    /\ mounted
    /\ mounted' = FALSE
    /\ effectPending' = FALSE
    /\ eventSources' = Closed(eventSources, eventSource)
    /\ isConnected' = IF eventSource # 0 THEN FALSE ELSE isConnected
    /\ lastEvent' = Ran("unmount", "")
    /\ UNCHANGED <<url, eventSource, eventSourceRef, received>>
    /\ UNCHANGED <<turnVars, respVars, storeVars, imageVars, analyzeVars>>

TurnStep(t) ==
    \/ TurnRequest(t)
    \/ TurnAnalyzeDone(t)
    \/ TurnFilterDone(t)
    \/ TurnSaveUserDone(t)
    \/ TurnExistingDone(t)
    \/ TurnTitleDone(t)
    \/ TurnGetHistoryDone(t)
    \/ TurnGenerateDone(t)
    \/ TurnEnhanceDone(t)
    \/ TurnSaveAiDone(t)
    \/ TurnUpdateDone(t)
    \/ TurnSaveErrorDone(t)
    \/ ImageGenerateDone(t)
    \/ ImageSaveUserDone(t)
    \/ ImageSaveAiDone(t)
    \/ ImageGetMessagesDone(t)
    \/ ImageTitleDone(t)
    \/ ImageErrSaveUserDone(t)
    \/ ImageErrSaveAiDone(t)

WithImageStep(t) ==
    \/ WithImageRequest(t)
    \/ WithImageAnalyzeDone(t)
    \/ WithImageSaveUserDone(t)
    \/ WithImageGenerateDone(t)
    \/ WithImageSaveAiDone(t)
    \/ WithImageGetMessagesDone(t)
    \/ WithImageTitleDone(t)

StreamStep(t) ==
    \/ StreamRequest(t)
    \/ ClientClose(t)
    \/ FilterDone(t)
    \/ SaveUserDone(t)
    \/ GetHistoryDone(t)
    \/ StreamChunk(t)
    \/ StreamReturn(t)
    \/ StreamThrow(t)
    \/ EnhanceDone(t)
    \/ SaveAiDone(t)
    \/ UpdateSessionDone(t)
    \/ SaveErrorDone(t)

\* ---------------------------------------------------------- specification
\* Rows of earlier turns with the given roles, in creation order.
HistoryOf(roles) ==
    [i \in DOMAIN roles |->
        [id |-> i, turn |-> 0, role |-> roles[i],
         content |-> IF roles[i] = "user" THEN <<"q">> ELSE <<"r">>,
         metadata |-> <<>>]]

\* The rows earlier turns left in the session: user and assistant messages
\* in alternation, the first n of them.
PriorHistory(n) ==
    HistoryOf([i \in 1..n |-> IF i % 2 = 1 THEN "user" ELSE "assistant"])

\* What the session may hold when a request arrives.  Short histories have
\* their roles in any order: a turn that failed after persisting its user
\* message leaves a user row without a reply, and an error message can stand
\* without a user row.  Long histories reach past the context window.
PriorHistories ==
    {HistoryOf(r) : r \in UNION {[1..n -> {"user", "assistant"}] :
                                     n \in 0..MaxPrior}}
    \cup {PriorHistory(n) :
              n \in (HistoryWindow - 1)..(HistoryWindow + MaxOver)}

\* No request is being handled yet.
TurnsInit(kinds) ==
    /\ kind = kinds
    /\ pc = [t \in Turns |-> "idle"]
    /\ payload = [t \in Turns |-> [content |-> <<>>, role |-> "user",
                                  userLocation |-> "absent",
                                  imageUrl |-> "absent"]]
    /\ filteredContent = [t \in Turns |-> <<>>]
    /\ responseComplete = [t \in Turns |-> FALSE]
    /\ clientClosed = [t \in Turns |-> FALSE]
    /\ headersSent = [t \in Turns |-> FALSE]
    /\ channel = [t \in Turns |-> <<>>]
    /\ ended = [t \in Turns |-> 0]
    /\ httpStatus = [t \in Turns |-> 0]
    /\ calls = [t \in Turns |-> <<>>]
    /\ delivered = [t \in Turns |-> <<>>]
    /\ fullAiResponse = [t \in Turns |-> <<>>]
    /\ enhancedResponse = [t \in Turns |-> <<>>]
    /\ aiMessageId = [t \in Turns |-> <<>>]
    /\ userMessageId = [t \in Turns |-> 0]
    /\ conversationHistory = [t \in Turns |-> <<>>]

\* A session just created.
NewSession == [title |-> <<"New Chat">>, updates |-> 0, titleWrites |-> 0]

\* generateImage has not been called; what its generators will do is given.
ImageInit(versions) ==
    /\ imageVersion \in versions
    /\ prompt \in Prompts
    /\ generatorFn \in
          [{Generators(imageVersion)[i] :
                i \in DOMAIN Generators(imageVersion)}
              -> {"throw"} \cup ImageValues]
    /\ genIndex = 0
    /\ invoked = <<>>
    /\ consoleLog = <<>>
    /\ imageOutcome = [kind |-> "pending"]

\* The handlers' view of generateImage: one call, of which they see whether
\* it resolved (ImageGenerateDone).
ImageIdle ==
    /\ imageVersion = "vision.ts:491"
    /\ prompt = <<"cat">>
    /\ generatorFn = [n \in {Generators("vision.ts:491")[i] :
                                  i \in DOMAIN Generators("vision.ts:491")}
                        |-> "throw"]
    /\ genIndex = 0
    /\ invoked = <<>>
    /\ consoleLog = <<>>
    /\ imageOutcome = [kind |-> "pending"]

\* analyzeImage has not been called.
AnalyzeIdle ==
    /\ imageData = [isString |-> TRUE, mime |-> "image/jpeg",
                    header |-> "ffd8ff"]
    /\ ocrResponse = "reject"
    /\ imageBBResponse = "reject"
    /\ analyzerIndex = 0
    /\ consulted = <<>>
    /\ analysis = [kind |-> "pending"]

\* No component uses the hook.
SSEIdle ==
    /\ mounted = FALSE
    /\ url = NullUrl
    /\ effectPending = FALSE
    /\ eventSources = <<>>
    /\ eventSource = 0
    /\ eventSourceRef = 0
    /\ isConnected = FALSE
    /\ received = <<>>
    /\ lastEvent = Ran("none", "")

\* No request has been handled yet; the session holds the rows of earlier
\* turns.
InitWith(kinds) ==
    /\ TurnsInit(kinds)
    /\ messages \in PriorHistories
    /\ session = NewSession
    /\ ImageIdle
    /\ AnalyzeIdle
    /\ SSEIdle

\* One request on the session, to one of the endpoints.
Init ==
    \E k \in {"stream", "turn", "regen"} :
        InitWith([t \in Turns |-> IF t = 1 THEN k ELSE "none"])

Next == \E t \in Turns : StreamStep(t) \/ TurnStep(t) \/ RegenStep(t)

Spec == Init /\ [][Next]_vars

\* One call of generateImage, in any of its versions, no request in flight.
FallbackInit ==
    /\ TurnsInit([t \in Turns |-> "none"])
    /\ messages = <<>>
    /\ session = NewSession
    /\ ImageInit(ImageVersions)
    /\ AnalyzeIdle
    /\ SSEIdle

FallbackNext == GenerateImageCall \/ GeneratorSettled

FallbackSpec == FallbackInit /\ [][FallbackNext]_vars

\* One call of analyzeImage, no request in flight.
AnalyzeInit ==
    /\ TurnsInit([t \in Turns |-> "none"])
    /\ messages = <<>>
    /\ session = NewSession
    /\ ImageIdle
    /\ imageData \in ImageDatas
    /\ ocrResponse \in OcrResponses
    /\ imageBBResponse \in ImageBBResponses
    /\ analyzerIndex = 0
    /\ consulted = <<>>
    /\ analysis = [kind |-> "pending"]
    /\ SSEIdle

AnalyzeNext == AnalyzeImageCall \/ AnalyzerSettled

AnalyzeSpec == AnalyzeInit /\ [][AnalyzeNext]_vars

\* One component using the hook: it mounts with some url, the effect of the
\* mount has yet to run.
SSEInit ==
    /\ TurnsInit([t \in Turns |-> "none"])
    /\ messages = <<>>
    /\ session = NewSession
    /\ ImageIdle
    /\ AnalyzeIdle
    /\ mounted = TRUE
    /\ url \in Urls \cup {NullUrl}
    /\ effectPending = TRUE
    /\ eventSources = <<>>
    /\ eventSource = 0
    /\ eventSourceRef = 0
    /\ isConnected = FALSE
    /\ received = <<>>
    /\ lastEvent = Ran("none", "")

SSENext ==
    \/ \E u \in Urls \cup {NullUrl} : Render(u)
    \/ RunEffect
    \/ OnOpen
    \/ OnMessage
    \/ OnError
    \/ Close
    \/ Unmount

SSESpec == SSEInit /\ [][SSENext]_vars

\* Two streaming turns in flight on one new session.  The inputs of each
\* are kept to what makes the turns differ in how they end: a valid or an
\* empty content, a filter that passes the text through, at most
\* MaxPairChunks fragments, an enrichment that leaves the text as it is;
\* every call and every write may still throw, and either client may
\* disconnect at any await.
PairInputs(t) ==
    /\ payload[t] \in [content : {<<>>, <<"hi">>}, role : {"user"},
                       userLocation : {"absent"}, imageUrl : {"absent"}]
    /\ filteredContent[t] # Redacted
    /\ Len(delivered[t]) <= MaxPairChunks
    /\ \A i \in DOMAIN delivered[t] : delivered[t][i] = <<"a">>
    /\ fullAiResponse[t] \in {<<>>, AssembledResponse(t)}
    /\ enhancedResponse[t] \in {<<>>, AssembledResponse(t)}
    /\ aiMessageId[t] \in {<<>>, TempId(1)}

PairInit ==
    /\ TurnsInit([t \in Turns |-> "stream"])
    /\ messages = <<>>
    /\ session = NewSession
    /\ ImageIdle
    /\ AnalyzeIdle
    /\ SSEIdle

PairNext ==
    \E t \in Turns :
        \/ StreamRequest(t) /\ PairInputs(t)'
        \/ ClientClose(t)
        \/ FilterDone(t) /\ PairInputs(t)'
        \/ SaveUserDone(t)
        \/ GetHistoryDone(t) /\ PairInputs(t)'
        \/ StreamChunk(t) /\ PairInputs(t)'
        \/ StreamReturn(t)
        \/ StreamThrow(t)
        \/ EnhanceDone(t) /\ PairInputs(t)'
        \/ SaveAiDone(t)
        \/ UpdateSessionDone(t)
        \/ SaveErrorDone(t)

PairSpec == PairInit /\ [][PairNext]_vars

\* Two runs of one streaming turn, side by side: the same valid request, no
\* call and no write failing, the adapters free to answer each run as they
\* like.  The client of run 1 stays connected; the client of run 2 may
\* disconnect while its enrichment is in flight.
TwinInputs(t) ==
    /\ \A i \in DOMAIN calls[t] : calls[t][i].out = "ok"
    /\ payload[t] = [content |-> <<"hi">>, role |-> "user",
                     userLocation |-> "absent", imageUrl |-> "absent"]
    /\ filteredContent[t] # Redacted
    /\ aiMessageId[t] \in {<<>>, TempId(1)}

TwinNext ==
    \E t \in Turns :
        \/ StreamRequest(t) /\ TwinInputs(t)'
        \/ ClientClose(t) /\ t = 2 /\ pc[t] = "enhance"
        \/ FilterDone(t) /\ TwinInputs(t)'
        \/ SaveUserDone(t) /\ TwinInputs(t)'
        \/ GetHistoryDone(t) /\ TwinInputs(t)'
        \/ StreamChunk(t) /\ TwinInputs(t)'
        \/ StreamReturn(t)
        \/ EnhanceDone(t) /\ TwinInputs(t)'
        \/ SaveAiDone(t) /\ TwinInputs(t)'
        \/ UpdateSessionDone(t) /\ TwinInputs(t)'

TwinSpec == PairInit /\ [][TwinNext]_vars

\* Requests to the non-streaming endpoint and to the messages-with-image
\* endpoint on one new session, two in flight at a time, a further request
\* of the first client taking the place of one that ended while the session
\* holds fewer than MaxTitleRows rows.  The inputs are kept to what decides the title: on
\* the non-streaming endpoint a plain content with a valid or an invalid
\* role, or an image-generation content; on the messages-with-image
\* endpoint a plain content with or without the file; a filter that passes
\* the text through, one reply, an enrichment that leaves it as it is;
\* every call may still throw.
TitleInputs(t) ==
    /\ payload[t].userLocation = "absent"
    /\ kind[t] = "turn" =>
          /\ payload[t].imageUrl = "absent"
          /\ \/ payload[t].content = <<"hi">>
             \/ /\ payload[t].content = <<ImageGenTag, "cat">>
                /\ payload[t].role = "user"
    /\ kind[t] = "withImage" =>
          /\ payload[t].role = "user"
          /\ payload[t].content = <<"hi">>
    /\ filteredContent[t] # Redacted
    /\ fullAiResponse[t] # <<"a", "b">>
    /\ \A i \in DOMAIN fullAiResponse[t] : fullAiResponse[t][i] # "d"

TitleKinds == {"turn", "withImage"}

\* A further request arrives in place of one that has ended: the first
\* client sends its requests one after another, the second sends one.
NewRequest(t) ==
    /\ t = 1
    /\ pc[t] = "done"
    /\ Len(messages) < MaxTitleRows
    /\ \E k \in TitleKinds : kind' = [kind EXCEPT ![t] = k]
    /\ pc' = [pc EXCEPT ![t] = "idle"]
    /\ payload' = [payload EXCEPT ![t] =
           [content |-> <<>>, role |-> "user", userLocation |-> "absent",
            imageUrl |-> "absent"]]
    /\ filteredContent' = [filteredContent EXCEPT ![t] = <<>>]
    /\ calls' = [calls EXCEPT ![t] = <<>>]
    /\ fullAiResponse' = [fullAiResponse EXCEPT ![t] = <<>>]
    /\ userMessageId' = [userMessageId EXCEPT ![t] = 0]
    /\ conversationHistory' = [conversationHistory EXCEPT ![t] = <<>>]
    /\ httpStatus' = [httpStatus EXCEPT ![t] = 0]
    /\ headersSent' = [headersSent EXCEPT ![t] = FALSE]
    /\ UNCHANGED <<imageVars, analyzeVars, sseVars, enhancedResponse, aiMessageId,
                   responseComplete, clientClosed, channel, ended, delivered,
                   storeVars>>

TitleInit ==
    /\ \E kinds \in [Turns -> TitleKinds] : TurnsInit(kinds)
    /\ messages = <<>>
    /\ session = NewSession
    /\ ImageIdle
    /\ AnalyzeIdle
    /\ SSEIdle

TitleNext ==
    \E t \in Turns :
        \/ TurnRequest(t) /\ TitleInputs(t)'
        \/ TurnFilterDone(t) /\ TitleInputs(t)'
        \/ TurnSaveUserDone(t)
        \/ TurnExistingDone(t)
        \/ TurnTitleDone(t)
        \/ TurnGetHistoryDone(t)
        \/ TurnGenerateDone(t) /\ TitleInputs(t)'
        \/ TurnEnhanceDone(t) /\ TitleInputs(t)'
        \/ TurnSaveAiDone(t)
        \/ TurnUpdateDone(t)
        \/ TurnSaveErrorDone(t)
        \/ ImageGenerateDone(t)
        \/ ImageSaveUserDone(t)
        \/ ImageSaveAiDone(t)
        \/ ImageGetMessagesDone(t)
        \/ ImageTitleDone(t)
        \/ ImageErrSaveUserDone(t)
        \/ ImageErrSaveAiDone(t)
        \/ WithImageRequest(t) /\ TitleInputs(t)'
        \/ WithImageAnalyzeDone(t)
        \/ WithImageSaveUserDone(t)
        \/ WithImageGenerateDone(t) /\ TitleInputs(t)'
        \/ WithImageSaveAiDone(t)
        \/ WithImageGetMessagesDone(t)
        \/ WithImageTitleDone(t)
        \/ NewRequest(t)

TitleSpec == TitleInit /\ [][TitleNext]_vars

\* A regenerate and a new non-streaming turn in flight on one session that
\* holds the rows of earlier turns, at most MaxPrior of them.  The inputs of
\* the turn are those of TitleInputs; every call may throw.
RegenPairInit ==
    /\ TurnsInit([t \in Turns |-> IF t = 1 THEN "regen" ELSE "turn"])
    /\ messages \in {h \in PriorHistories : Len(h) <= MaxPrior}
    /\ session = NewSession
    /\ ImageIdle
    /\ AnalyzeIdle
    /\ SSEIdle

RegenPairNext ==
    \E t \in Turns :
        \/ RegenRequest(t)
        \/ RegenGetMessagesDone(t)
        \/ RegenGenerateDone(t) /\ TitleInputs(t)'
        \/ RegenEnhanceDone(t) /\ TitleInputs(t)'
        \/ RegenSaveDone(t)
        \/ TurnRequest(t) /\ TitleInputs(t)'
        \/ TurnFilterDone(t) /\ TitleInputs(t)'
        \/ TurnSaveUserDone(t)
        \/ TurnExistingDone(t)
        \/ TurnTitleDone(t)
        \/ TurnGetHistoryDone(t)
        \/ TurnGenerateDone(t) /\ TitleInputs(t)'
        \/ TurnEnhanceDone(t) /\ TitleInputs(t)'
        \/ TurnSaveAiDone(t)
        \/ TurnUpdateDone(t)
        \/ TurnSaveErrorDone(t)
        \/ ImageGenerateDone(t)
        \/ ImageSaveUserDone(t)
        \/ ImageSaveAiDone(t)
        \/ ImageGetMessagesDone(t)
        \/ ImageTitleDone(t)
        \/ ImageErrSaveUserDone(t)
        \/ ImageErrSaveAiDone(t)

RegenPairSpec == RegenPairInit /\ [][RegenPairNext]_vars

\* ================================================================ claims
IsStream(t) == kind[t] = "stream"

Finished(t) == pc[t] = "done"

\* Indexes of the assistant rows a turn created.
AssistantRows(t) ==
    {i \in DOMAIN messages :
        messages[i].turn = t /\ messages[i].role = "assistant"}

\* Indexes of a turn's events of one type.
EventsOf(t, type) == {i \in DOMAIN channel[t] : channel[t][i].type = type}

\* The chunk values of a turn's aiChunk events, in emission order.
ChunkValues(t) ==
    LET ch == SelectSeq(channel[t], LAMBDA e : e.type = "aiChunk")
    IN [i \in DOMAIN ch |-> ch[i].chunk]

NoCallFailed(t) == \A i \in DOMAIN calls[t] : calls[t][i].out = "ok"

Threw(t, i, names) ==
    calls[t][i].call \in names /\ calls[t][i].out = "throw"

\* C1: a streaming turn persists at most one assistant message, whatever
\* fails.  The code breaks it: a failure after the reply was persisted
\* (aiComplete write or updateChatSession throwing) adds the error message.
C1_AtMostOneAssistantPerStreamTurn ==
    \A t \in Turns : IsStream(t) => Cardinality(AssistantRows(t)) <= 1

\* C2: no userMessage, aiChunk, aiComplete or error event is written once
\* the 'close' handler has run.  The code breaks it: the aiComplete of the
\* error path and the error event of the outer catch are written unguarded.
C2_NoWriteAfterDisconnect ==
    \A t \in Turns : IsStream(t) =>
        \A i \in DOMAIN channel[t] :
            channel[t][i].type \in {"userMessage", "aiChunk", "aiComplete", "error"}
                => ~channel[t][i].afterClose

\* C3: every aiChunk event is preceded by exactly one userMessage event, at
\* most one userMessage event is written, and no userMessage or aiChunk
\* event follows an aiComplete event.
C3_EventOrder ==
    \A t \in Turns : IsStream(t) =>
        /\ Cardinality(EventsOf(t, "userMessage")) <= 1
        /\ \A i \in EventsOf(t, "aiChunk") :
              Cardinality({j \in EventsOf(t, "userMessage") : j < i}) = 1
        /\ \A i \in EventsOf(t, "aiComplete") :
              \A j \in DOMAIN channel[t] :
                  j > i => channel[t][j].type \notin {"userMessage", "aiChunk"}

\* C3 witness: a finished turn that wrote userMessage, chunks and aiComplete.
C3_Witness ==
    \E t \in Turns :
        /\ IsStream(t) /\ Finished(t)
        /\ Cardinality(EventsOf(t, "aiChunk")) >= 2
        /\ EventsOf(t, "userMessage") # {}
        /\ EventsOf(t, "aiComplete") # {}

\* C4: a finished streaming turn has signalled its end exactly once (a done
\* event, or res.end(), the only terminal signal the handler has); here for
\* the turns with a valid payload whose client stayed connected and in which
\* no write other than a chunk write threw.  The code breaks it: it never
\* writes a done event, and it returns without res.end() once a chunk write
\* has thrown.
C4_ExactlyOneTerminal ==
    \A t \in Turns :
        (/\ IsStream(t) /\ Finished(t) /\ ValidPayload(payload[t])
         /\ ~clientClosed[t]
         /\ \A i \in DOMAIN calls[t] : ~Threw(t, i, {"res.write"}))
        => Cardinality(EventsOf(t, "done")) + ended[t] = 1

\* C5: in a turn where the client stayed connected and no call failed, the
\* chunks of the aiChunk events, concatenated in order, are the content of
\* the message the single aiComplete event carries.
C5_ChunksConcatToContent ==
    \A t \in Turns :
        IsStream(t) /\ Finished(t) /\ ~clientClosed[t] /\ NoCallFailed(t) =>
            /\ Cardinality(EventsOf(t, "aiComplete")) = 1
            /\ \A i \in EventsOf(t, "aiComplete") :
                  Flatten(ChunkValues(t)) = messages[channel[t][i].msgId].content

\* C5 witness: a successful turn with streamed chunks and an enrichment chunk.
C5_Witness ==
    \E t \in Turns :
        /\ IsStream(t) /\ Finished(t) /\ ~clientClosed[t] /\ NoCallFailed(t)
        /\ Len(delivered[t]) = MaxChunks
        /\ Len(ChunkValues(t)) = MaxChunks + 1
        /\ fullAiResponse[t] # AssembledResponse(t)

\* C6: when the streaming call fails before any fragment (the client
\* connected, nothing else failing), the blocking completion is called once
\* and the turn has one assistant message and one aiComplete event.  The
\* code breaks it: the handler never calls generateSarcasticResponse; it
\* goes to the error path.
C6_FallbackToBlockingCall ==
    \A t \in Turns :
        (/\ IsStream(t) /\ Finished(t) /\ delivered[t] = <<>>
         /\ ~clientClosed[t]
         /\ \E i \in DOMAIN calls[t] :
               /\ Threw(t, i, {"generateSarcasticResponseStream"})
               /\ \A j \in DOMAIN calls[t] :
                     j # i => calls[t][j].out = "ok")
        => /\ Cardinality({i \in DOMAIN calls[t] :
                 calls[t][i].call = "generateSarcasticResponse"}) = 1
           /\ Cardinality(AssistantRows(t)) = 1
           /\ Cardinality(EventsOf(t, "aiComplete")) = 1

\* C7: once the client has disconnected no further aiChunk event is written,
\* and the turn has at most one assistant message.  The code breaks the
\* second half, through the duplicate of C1.
C7_CloseStopsChunksSingleAssistant ==
    \A t \in Turns : IsStream(t) /\ clientClosed[t] =>
        /\ \A i \in EventsOf(t, "aiChunk") : ~channel[t][i].afterClose
        /\ Cardinality(AssistantRows(t)) <= 1

\* What C8 promises of a finished turn: one assistant row, the error message,
\* one aiComplete event carrying it, and the response ended.
ErrorTurnOutcome(t) ==
    /\ Cardinality(AssistantRows(t)) = 1
    /\ \A i \in AssistantRows(t) :
          /\ IsError(messages[i])
          /\ messages[i].content = StreamErrorText
          /\ Cardinality(EventsOf(t, "aiComplete")) = 1
          /\ \A e \in EventsOf(t, "aiComplete") : channel[t][e].msgId = i
    /\ ended[t] = 1

C9_FinishedTurnResolved ==
    \A t \in Turns :
        (/\ kind[t] \in {"stream", "turn"} /\ Finished(t)
         /\ \A i \in DOMAIN calls[t] : ~Threw(t, i, {"res.write"}))
        => \/ ended[t] >= 1
           \/ clientClosed[t]
           \/ httpStatus[t] # 0

\* C10: a turn whose payload fails validation creates no ChatMessage row, on
\* either endpoint.  The code breaks it on the non-streaming endpoint, whose
\* catch persists the error message for a validation failure too.
C10_InvalidPayloadCreatesNoRows ==
    \A t \in Turns :
        pc[t] # "idle" /\ ~ValidPayload(payload[t]) =>
            \A i \in DOMAIN messages : messages[i].turn # t

\* C11: a finished turn whose payload failed validation was answered with
\* a 4xx status, on either endpoint.  The code breaks it on both: the
\* non-streaming catch answers 500, and the stream handler's outer catch
\* writes an error event on the implicit 200 (or answers 500).
C11_InvalidPayloadAnswered4xx ==
    \A t \in Turns :
        (/\ kind[t] \in {"stream", "turn"} /\ Finished(t)
         /\ ~ValidPayload(payload[t])
         /\ \A i \in DOMAIN calls[t] :
               calls[t][i].call # "messageSchema.parse"
                   => calls[t][i].out = "ok")
        => httpStatus[t] \in 400..499

\* The entry i of a turn's log is a chunk write, an enrichment-chunk write or
\* an aiComplete write of the main path that threw: nothing failed before it
\* and, for the latter two, the streaming call had resolved.
MainPathWriteThrew(t, i) ==
    /\ \A j \in 1..(i - 1) : calls[t][j].out = "ok"
    /\ \/ Threw(t, i, {"res.write(aiChunk)"})
       \/ /\ Threw(t, i, {"res.write"})
          /\ \E j \in 1..(i - 1) :
                calls[t][j].call = "generateSarcasticResponseStream"

\* C12: a chunk, enrichment-chunk or aiComplete write that throws is taken
\* as a cancellation: the flag is set, no error message is persisted and no
\* later event is written.  The code breaks it: only the chunk callback
\* catches its write; the other two writes throw into the inner catch with
\* the flag unset, which persists the error message and writes aiComplete.
C12_WriteThrowIsCancellation ==
    \A t \in Turns : IsStream(t) /\ Finished(t) =>
        \A i \in DOMAIN calls[t] :
            (/\ MainPathWriteThrew(t, i)
             /\ \A j \in DOMAIN calls[t] : j > i => calls[t][j].out = "ok")
            => /\ responseComplete[t]
               /\ \A r \in AssistantRows(t) : ~IsError(messages[r])
               /\ \A e \in DOMAIN channel[t] :
                     channel[t][e].type = "aiComplete"
                         => ~IsError(messages[channel[t][e].msgId])

IsRegen(t) == kind[t] = "regen"

\* The row is a regenerated reply: metadata.regenerated === true.
IsRegenerated(row) ==
    "regenerated" \in DOMAIN row.metadata /\ row.metadata.regenerated

\* C13: a successful regenerate adds exactly one row, an assistant row with
\* metadata.regenerated = true and metadata.originalMessageId = the id of
\* the most recent user message, and leaves every earlier row, the prior
\* reply included, in place and unchanged: every step of the handler leaves
\* the rows alone, except the step that answers 200, which appends that row.
C13_RegenerateIsAdditive ==
    [][\A t \in Turns : IsRegen(t) /\ pc'[t] # pc[t] =>
          IF pc'[t] = "done" /\ httpStatus'[t] = 200
          THEN /\ Len(messages') = Len(messages) + 1
               /\ \A i \in DOMAIN messages : messages'[i] = messages[i]
               /\ LET new == messages'[Len(messages')] IN
                    /\ new.role = "assistant"
                    /\ IsRegenerated(new)
                    /\ \E u \in DOMAIN messages :
                          /\ messages[u].role = "user"
                          /\ \A j \in DOMAIN messages :
                                j > u => messages[j].role # "user"
                          /\ new.metadata.originalMessageId = messages[u].id
          ELSE messages' = messages]_vars

\* C13 witness: a regenerate answered 200 on a session whose last row was an
\* assistant reply; that reply is still there, before the regenerated one.
C13_Witness ==
    \E t \in Turns :
        /\ IsRegen(t) /\ Finished(t) /\ httpStatus[t] = 200
        /\ Len(messages) >= 3
        /\ messages[Len(messages) - 1].role = "assistant"
        /\ messages[Len(messages) - 1].turn = 0
        /\ IsRegenerated(messages[Len(messages)])
        /\ messages[Len(messages)].turn = t

\* The rows a turn created.
RowsOf(t) == {i \in DOMAIN messages : messages[i].turn = t}

\* The rows the session held apart from those the turn created.
RowsBefore(t) == SelectSeq(messages, LAMBDA r : r.turn # t)

\* C14: a regenerate that reads a session of fewer than 2 messages, or one
\* without a user row, answers 400 and persists nothing; a regenerate whose
\* completion or enrichment call throws persists nothing.
C14_RegenerateRejections ==
    \A t \in Turns : IsRegen(t) /\ Finished(t) =>
        /\ (/\ Returned(t, "getSessionMessages")
            /\ \/ Len(RowsBefore(t)) < 2
               \/ \A i \in DOMAIN RowsBefore(t) :
                     RowsBefore(t)[i].role # "user")
           => httpStatus[t] = 400 /\ RowsOf(t) = {}
        /\ (\E i \in DOMAIN calls[t] :
               Threw(t, i, {"generateSarcasticResponse",
                            "enhanceResponseWithWebData"}))
           => RowsOf(t) = {}

\* C14 witness: a regenerate answered 400 on a session of two rows, neither
\* of them a user row.
C14_Witness ==
    \E t \in Turns :
        /\ IsRegen(t) /\ Finished(t) /\ httpStatus[t] = 400
        /\ Len(messages) = 2
        /\ \A i \in DOMAIN messages : messages[i].role = "assistant"

\* C15: the context a regenerate passes to the completion call is the rows
\* created before the most recent assistant reply, the last 10 of them at
\* most, whatever the last row of the session is.  The code breaks it:
\* slice(0, -1) drops the last row whatever its role, so when the last row
\* is a user message the context still holds the most recent assistant
\* reply (and whatever follows it, up to that last row).
C15_RegenerateContext ==
    \A t \in Turns :
        IsRegen(t) /\ pc[t] \in {"r_generate", "r_enhance", "r_save"} =>
            LET replies == {i \in DOMAIN messages :
                               messages[i].role = "assistant"}
            IN replies # {} =>
                LET a == CHOOSE i \in replies : \A j \in replies : j <= i
                    first == IF a - 1 > HistoryWindow
                             THEN a - HistoryWindow ELSE 1
                IN conversationHistory[t] =
                       [k \in 1..(a - first) |-> messages[first + k - 1].id]

\* The call of generateImage has settled.
ImageSettled == imageOutcome.kind # "pending"

\* Generator i of the list is the first whose fn resolves.
FirstToSucceed(i) ==
    LET gens == Generators(imageVersion) IN
    /\ i \in DOMAIN gens
    /\ generatorFn[gens[i]] # "throw"
    /\ \A j \in 1..(i - 1) : generatorFn[gens[j]] = "throw"

C17_AggregateFailure ==
    LET gens == Generators(imageVersion) IN
    (/\ ImageSettled
     /\ \A i \in DOMAIN gens : generatorFn[gens[i]] = "throw")
    => /\ imageOutcome.kind = "error"
       /\ \A i \in DOMAIN gens :
             \E k \in DOMAIN imageOutcome.message :
                 imageOutcome.message[k] = gens[i]

\* C18: within one call of generateImage the generators are called in list
\* order, one is called only after all before it have failed, and none is
\* called twice.
C18_InOrderOnceEach ==
    LET gens == Generators(imageVersion) IN
    /\ Len(invoked) <= Len(gens)
    /\ \A k \in DOMAIN invoked :
          /\ invoked[k] = gens[k]
          /\ \A j \in 1..(k - 1) : generatorFn[gens[j]] = "throw"
    /\ \A k, l \in DOMAIN invoked : k # l => invoked[k] # invoked[l]

\* C18 witness: all four generators of the list of part_001:354 were
\* called, the last one resolving.
C18_Witness ==
    /\ imageVersion = "part_001:354"
    /\ ImageSettled
    /\ Len(invoked) = 4
    /\ generatorFn[invoked[4]] # "throw"

\* C19: when a step of a non-streaming turn fails after validation (the
\* filter, a Record Store call, the completion or the enrichment; here on
\* the main path, image-generation requests apart), the finished turn has
\* persisted exactly one error message with the fixed text and has answered
\* 500.  The code breaks it through the defect of C9: the catch persists the
\* error message with an unguarded await, and when that call throws too
\* nothing is persisted and no response is sent.
C19_FailedTurnAnswered500 ==
    \A t \in Turns :
        (/\ kind[t] = "turn" /\ Finished(t)
         /\ ValidPayload(payload[t])
         /\ ~IsImageGeneration(payload[t].content)
         /\ \E i \in DOMAIN calls[t] :
               Threw(t, i, {"filterPersonalInformation", "createChatMessage",
                            "getSessionMessages", "updateChatSession",
                            "generateSarcasticResponse",
                            "enhanceResponseWithWebData"}))
        => /\ Cardinality({r \in AssistantRows(t) : IsError(messages[r])}) = 1
           /\ \A r \in AssistantRows(t) :
                 IsError(messages[r]) => messages[r].content = TurnErrorText
           /\ httpStatus[t] = 500

\* The completion call of a streaming or non-streaming turn is in flight.
CompletionInFlight(t) ==
    \/ IsStream(t) /\ pc[t] = "streaming"
    \/ kind[t] = "turn" /\ pc[t] = "t_generate"

\* C20: the context a streaming or non-streaming turn passes to the
\* completion call has at most 10 entries and is the most recent min(10, n)
\* of the n rows of the session, in creation order, the turn's own user
\* message (persisted before the read) being the last of them.
C20_ContextIsLastTen ==
    \A t \in Turns : CompletionInFlight(t) =>
        LET n == Len(messages)
            m == IF n < HistoryWindow THEN n ELSE HistoryWindow
        IN /\ Len(conversationHistory[t]) = m
           /\ Len(conversationHistory[t]) <= HistoryWindow
           /\ \A k \in 1..m :
                 conversationHistory[t][k] = messages[n - m + k].id
           /\ conversationHistory[t][m] = userMessageId[t]
           /\ messages[userMessageId[t]].turn = t

\* C20 witness: a streaming turn on a session of more than 10 rows has its
\* completion call in flight with a context of exactly 10 entries, the
\* oldest rows left out.
C20_Witness ==
    \E t \in Turns :
        /\ IsStream(t) /\ pc[t] = "streaming"
        /\ Len(messages) > HistoryWindow + 1
        /\ Len(conversationHistory[t]) = HistoryWindow
        /\ conversationHistory[t][1] = Len(messages) - HistoryWindow + 1

\* C21: while the streaming call is in flight, the chunks of the aiChunk
\* events on the channel are the first fragments delivered, in arrival
\* order, one event per fragment; and as long as the flag is unset they are
\* all the fragments delivered so far: none is held back, merged or moved.
C21_ChunksAreFragmentsInOrder ==
    \A t \in Turns : IsStream(t) /\ pc[t] = "streaming" =>
        /\ Len(ChunkValues(t)) <= Len(delivered[t])
        /\ \A k \in DOMAIN ChunkValues(t) : ChunkValues(t)[k] = delivered[t][k]
        /\ ~responseComplete[t] => ChunkValues(t) = delivered[t]

\* C21 witness: two different fragments were delivered with the flag unset
\* and stand on the channel in the order they arrived.
C21_Witness ==
    \E t \in Turns :
        /\ IsStream(t) /\ pc[t] = "streaming" /\ ~responseComplete[t]
        /\ Len(delivered[t]) = 2
        /\ delivered[t][1] # delivered[t][2]
        /\ ChunkValues(t) = delivered[t]

\* In this step the last entry added to the turn's log is a chunk write that
\* threw.
ChunkWriteThrows(t) ==
    /\ Len(calls'[t]) = Len(calls[t]) + 1
    /\ calls'[t][Len(calls'[t])].call = "res.write(aiChunk)"

\* The flag of a stream turn is never cleared, and a step sets it only on
\* the client's disconnect, on a chunk write that throws, or together with
\* res.end() at the end of the main path or of the inner catch.
FlagSetOnceNeverCleared ==
    \A t \in Turns : IsStream(t) =>
        /\ responseComplete[t] => responseComplete'[t]
        /\ (~responseComplete[t] /\ responseComplete'[t]) =>
              \/ ~clientClosed[t] /\ clientClosed'[t]
              \/ ChunkWriteThrows(t)
              \/ pc'[t] = "done" /\ ended'[t] = ended[t] + 1

\* C22 as stated: the flag is set exactly once per turn, on disconnect,
\* completion or fatal error, and never cleared; so a finished turn has its
\* flag set.  The code sets no flag in the outer catch: a turn whose
\* validation, filter, user-message write or history read failed ends with
\* the flag unset.
C22_Original ==
    /\ [][FlagSetOnceNeverCleared]_vars
    /\ [](\A t \in Turns : IsStream(t) /\ Finished(t) => responseComplete[t])

\* C22 as amended: the flag goes from unset to set at most once and is never
\* cleared; it is set by the disconnect, by a chunk write that throws, and at
\* the end of the main path or of the inner catch; a turn that finished with
\* the flag unset went through the outer catch.
C22_FlagMonotone ==
    /\ [][FlagSetOnceNeverCleared]_vars
    /\ [](\A t \in Turns :
            IsStream(t) /\ Finished(t) /\ ~responseComplete[t] =>
                \/ EventsOf(t, "error") # {}
                \/ httpStatus[t] = 500
                \/ \E i \in DOMAIN calls[t] : calls[t][i].out = "throw")

\* C22 witness: a chunk write threw, which set the flag, and the client
\* disconnected afterwards; the flag is still set.
C22_Witness ==
    \E t \in Turns :
        /\ IsStream(t) /\ responseComplete[t] /\ clientClosed[t]
        /\ \E i \in DOMAIN calls[t] :
              /\ Threw(t, i, {"res.write(aiChunk)"})
              /\ ~calls[t][i].closed

\* The relay state of one turn: the locals of its handler invocation and
\* its response.
RelayState(t) ==
    <<pc[t], payload[t], filteredContent[t], responseComplete[t],
      clientClosed[t], headersSent[t], channel[t], ended[t], httpStatus[t],
      calls[t], delivered[t], fullAiResponse[t], userMessageId[t],
      conversationHistory[t]>>

\* The types of the events on a turn's channel, in order.
EventTypes(t) == [i \in DOMAIN channel[t] |-> channel[t][i].type]

\* C23: two streaming turns running concurrently on one session share no
\* relay state.  A step changes the relay state of one turn only; a turn's
\* flag is set only by its own disconnect, its own chunk write that threw or
\* its own end; and a turn whose client stayed connected and whose calls
\* all succeeded ends with all its events, no more and no fewer, whatever
\* happened to the other turn.
C23_TurnsShareNoRelayState ==
    /\ [][\A t, u \in Turns :
             t # u /\ RelayState(t)' # RelayState(t)
                 => RelayState(u)' = RelayState(u)]_vars
    /\ [](\A t \in Turns :
            /\ responseComplete[t] =>
                  \/ clientClosed[t]
                  \/ \E i \in DOMAIN calls[t] :
                        Threw(t, i, {"res.write(aiChunk)"})
                  \/ Finished(t)
            /\ (Finished(t) /\ ~clientClosed[t] /\ NoCallFailed(t)) =>
                  /\ EventTypes(t) =
                        <<"connected", "userMessage">>
                        \o [i \in DOMAIN delivered[t] |-> "aiChunk"]
                        \o <<"aiComplete">>
                  /\ ChunkValues(t) = delivered[t]
                  /\ ended[t] = 1)

\* C23 witness: the turn that came first lost its client while in flight
\* and is still in flight; the turn that came second, its client connected,
\* has ended with its events complete.
C23_Witness ==
    /\ userMessageId[1] = 1 /\ userMessageId[2] = 2
    /\ clientClosed[1] /\ responseComplete[1] /\ ~Finished(1)
    /\ Finished(2) /\ ~clientClosed[2] /\ NoCallFailed(2)
    /\ Len(delivered[2]) = MaxPairChunks
    /\ EventsOf(2, "aiComplete") # {}

\* The enrichment call of the turn returned with the client connected (the
\* flag unset), and the write that followed it, if any, did not throw.
EnrichedWhileConnected(t) ==
    \E i \in DOMAIN calls[t] :
        /\ calls[t][i].call = "enhanceResponseWithWebData"
        /\ calls[t][i].out = "ok"
        /\ ~calls[t][i].flag /\ ~calls[t][i].closed
        /\ i + 1 \in DOMAIN calls[t] => ~Threw(t, i + 1, {"res.write"})

\* The rows of the replies a turn persisted, its error messages apart.
ReplyRows(t) == {r \in AssistantRows(t) : ~IsError(messages[r])}

\* C24: when the enrichment returns, the client connected, a text that
\* differs from the streamed one, one more aiChunk event is written, before
\* any aiComplete, whose chunk is the enriched text without the streamed
\* text in front, and the reply persisted is the enriched text; when it
\* returns the streamed text, no aiChunk is added.
C24_EnrichmentChunk ==
    \A t \in Turns : IsStream(t) /\ EnrichedWhileConnected(t) =>
        /\ \A r \in ReplyRows(t) : messages[r].content = enhancedResponse[t]
        /\ IF enhancedResponse[t] # AssembledResponse(t)
           THEN /\ Len(ChunkValues(t)) = Len(delivered[t]) + 1
                /\ SubSeq(ChunkValues(t), 1, Len(delivered[t])) = delivered[t]
                /\ AssembledResponse(t) \o ChunkValues(t)[Len(ChunkValues(t))]
                       = enhancedResponse[t]
                /\ \A i \in EventsOf(t, "aiChunk") :
                      \A j \in EventsOf(t, "aiComplete") : i < j
           ELSE ChunkValues(t) = delivered[t]

\* C24 witness: a finished turn whose enrichment appended to a streamed text
\* of two fragments; the reply persisted and announced is the enriched text.
C24_Witness ==
    \E t \in Turns :
        /\ IsStream(t) /\ Finished(t) /\ EnrichedWhileConnected(t)
        /\ Len(delivered[t]) = 2
        /\ enhancedResponse[t] # AssembledResponse(t)
        /\ ReplyRows(t) # {}
        /\ EventsOf(t, "aiComplete") # {}

\* C25: within one streaming turn every aiChunk event carries the turn's
\* temporary id as messageId, every aiComplete event, of the reply or of the
\* error message, carries it as tempId, and the message an aiComplete event
\* carries is an assistant row the turn has already persisted.
C25_OneTempIdPerTurn ==
    \A t \in Turns : IsStream(t) =>
        \A i \in EventsOf(t, "aiChunk") \cup EventsOf(t, "aiComplete") :
            /\ aiMessageId[t] \in {TempId(now) : now \in Times}
            /\ channel[t][i].tempId = aiMessageId[t]
            /\ channel[t][i].type = "aiComplete" =>
                  \E r \in AssistantRows(t) :
                      messages[r].id = channel[t][i].msgId

\* C25 witness: a finished turn that wrote two aiChunk events and two
\* aiComplete events, the reply's and, its session update having thrown,
\* the error message's.
C25_Witness ==
    \E t \in Turns :
        /\ IsStream(t) /\ Finished(t)
        /\ Cardinality(EventsOf(t, "aiChunk")) = 2
        /\ \E i, j \in EventsOf(t, "aiComplete") :
              /\ i < j
              /\ ~IsError(messages[channel[t][i].msgId])
              /\ IsError(messages[channel[t][j].msgId])

\* The turn ran its main path to the end with its client connected and no
\* call or write failing.
Successful(t) ==
    /\ IsStream(t) /\ Finished(t)
    /\ ~clientClosed[t] /\ NoCallFailed(t)
    /\ Returned(t, "updateChatSession")

\* C26: the reply persisted by a successful streaming turn has
\* metadata.streamed = true, metadata.userMessageId = the id of the user
\* row the turn persisted, and metadata.enhanced = true exactly when the
\* enrichment adapter returned a text other than the streamed one.  The
\* code breaks the last part: enhanced is whether the final text holds the
\* marker, not whether the adapter changed it.
C26_ReplyMetadata ==
    \A t \in Turns : Successful(t) =>
        \A r \in ReplyRows(t) :
            /\ messages[r].metadata.streamed
            /\ messages[r].metadata.userMessageId = userMessageId[t]
            /\ messages[userMessageId[t]].turn = t
            /\ messages[userMessageId[t]].role = "user"
            /\ messages[r].metadata.enhanced
                  <=> enhancedResponse[t] # AssembledResponse(t)

\* C28: over any sequence and interleaving of non-streaming turns,
\* image-generation turns and messages-with-image turns on one session, the
\* title of the session is written at most once.
C28_TitleWrittenAtMostOnce == session.titleWrites <= 1

\* The turn read the session's rows to decide on the title and was answered
\* 200.
ReachedTitleCheck(t) ==
    /\ Finished(t) /\ httpStatus[t] = 200
    /\ Returned(t, "getSessionMessages")

\* C28 witness: a messages-with-image turn and an image-generation turn ran
\* on the session, both came to the title check and were answered 200, and
\* the title was written once.
C28_Witness ==
    /\ session.titleWrites = 1
    /\ \E t, u \in Turns :
          /\ kind[t] = "withImage" /\ ReachedTitleCheck(t)
          /\ kind[u] = "turn" /\ IsImageGeneration(payload[u].content)
          /\ ReachedTitleCheck(u)
    /\ Len(messages) >= 4

\* C29: once the first turn on a new session has completed, the title of
\* the session has been derived from that turn's user message, on the
\* streaming and on the non-streaming endpoint.  The code breaks it: the
\* stream handler never writes the title.
C29_FirstTurnTitlesSession ==
    \A t \in Turns :
        /\ kind[t] \in {"stream", "turn"} /\ Finished(t)
        /\ ~IsImageGeneration(payload[t].content)
        /\ userMessageId[t] = 1
        /\ NoCallFailed(t) /\ ~clientClosed[t]
        => /\ session.titleWrites = 1
           /\ session.title = GenerateTitleFromMessage(messages[1].content)

\* C30: generateImage of services/vision.ts never rejects: whatever the
\* generators do, all of them failing included, the call settles with a
\* string, the result of the first generator that resolved or, when none
\* did, the SVG data URL built locally from the prompt.
C30_VisionGenerateImageNeverRejects ==
    LET gens == Generators(imageVersion) IN
    imageVersion = "vision.ts:491" =>
        /\ imageOutcome.kind \in {"pending", "value"}
        /\ genIndex > Len(gens) => ImageSettled
        /\ ImageSettled =>
              \/ \E i \in DOMAIN gens :
                    /\ generatorFn[gens[i]] # "throw"
                    /\ imageOutcome.value = <<generatorFn[gens[i]]>>
              \/ /\ \A i \in DOMAIN gens : generatorFn[gens[i]] = "throw"
                 /\ imageOutcome.value = CreateEnhancedSVGImage(prompt)

\* C30 witness: all three generators of vision.ts were called and failed,
\* and the call returned the SVG data URL.
C30_Witness ==
    /\ imageVersion = "vision.ts:491"
    /\ invoked = Generators(imageVersion)
    /\ \A i \in DOMAIN invoked : generatorFn[invoked[i]] = "throw"
    /\ imageOutcome = [kind |-> "value",
                       value |-> CreateEnhancedSVGImage(prompt)]

\* The streaming call of the turn settled with the flag already set: the
\* client had disconnected, or a chunk write had thrown, before it.
CancelledBeforeStreamingSettled(t) ==
    \E i \in DOMAIN calls[t] :
        /\ calls[t][i].call = "generateSarcasticResponseStream"
        /\ calls[t][i].flag

\* The call is in the log of the turn, whatever its outcome.
Called(t, name) == \E i \in DOMAIN calls[t] : calls[t][i].call = name

\* C31: a streaming turn whose client disconnected, or whose chunk write
\* threw, before the streaming call settled ends there: the user message is
\* the only row it persisted, the enrichment is not called, the session is
\* not updated and res.end() is never called.
C31_CancelledTurnStopsAfterStreaming ==
    \A t \in Turns : IsStream(t) /\ CancelledBeforeStreamingSettled(t) =>
        /\ Finished(t)
        /\ RowsOf(t) = {userMessageId[t]}
        /\ messages[userMessageId[t]].role = "user"
        /\ ~Called(t, "enhanceResponseWithWebData")
        /\ ~Called(t, "updateChatSession")
        /\ session.updates = 0
        /\ ended[t] = 0

\* C31 witness: the client disconnected after the first fragment was
\* written, a second fragment came and the streaming call returned.
C31_Witness ==
    \E t \in Turns :
        /\ IsStream(t) /\ CancelledBeforeStreamingSettled(t)
        /\ clientClosed[t]
        /\ Len(delivered[t]) = 2
        /\ Len(ChunkValues(t)) = 1
        /\ Returned(t, "generateSarcasticResponseStream")

\* The two runs were given the same adapter outputs: the same fragments and
\* the same enriched text.
SameAdapterOutputs ==
    /\ \A t \in Turns : Finished(t) /\ Returned(t, "enhanceResponseWithWebData")
    /\ delivered[1] = delivered[2]
    /\ enhancedResponse[1] = enhancedResponse[2]

\* C32: the reply a streaming turn persists does not depend on the
\* connection: of two runs given the same adapter outputs, one with the
\* client connected throughout and one whose client disconnects while the
\* enrichment is in flight, both persist the same content and the same
\* metadata.enhanced.  The code breaks it: the enriched text replaces the
\* streamed one only while the flag is unset.
C32_ContentIndependentOfConnection ==
    SameAdapterOutputs =>
        \A r1 \in ReplyRows(1), r2 \in ReplyRows(2) :
            /\ messages[r1].content = messages[r2].content
            /\ messages[r1].metadata.enhanced = messages[r2].metadata.enhanced

\* A non-streaming turn that is not an image-generation request.
IsPlainTurn(t) ==
    kind[t] = "turn" /\ ~IsImageGeneration(payload[t].content)

\* C33: a non-streaming turn persists at most one assistant message; a
\* failure after the reply was persisted adds no error message.  The code
\* breaks it: the session update throwing after the reply was persisted
\* leads to the catch, which persists the error message as well.
C33_TurnPersistsOneAssistant ==
    \A t \in Turns : IsPlainTurn(t) => Cardinality(AssistantRows(t)) <= 1

\* Indexes of the user rows a turn created.
UserRows(t) ==
    {i \in DOMAIN messages :
        messages[i].turn = t /\ messages[i].role = "user"}

\* An image-generation turn that was answered by its branch: by the success
\* path or by the branch's own catch.
ImageTurnAnswered(t) ==
    /\ kind[t] = "turn" /\ Finished(t)
    /\ ValidPayload(payload[t]) /\ IsImageGeneration(payload[t].content)
    /\ httpStatus[t] = 200

\* C34: an image-generation turn persists exactly one user message and
\* exactly one assistant message, whether generateImage succeeds or throws
\* and whichever Record Store call of the success branch fails.  The code
\* breaks it: the branch's catch persists a user message and an assistant
\* message of its own, whatever the success path had persisted already.
C34_ImageTurnPersistsOnePair ==
    \A t \in Turns : ImageTurnAnswered(t) =>
        /\ Cardinality(UserRows(t)) = 1
        /\ Cardinality(AssistantRows(t)) = 1

\* Indexes of the regenerated replies a regenerate persisted.
RegeneratedRows(t) == {r \in RowsOf(t) : IsRegenerated(messages[r])}

\* How many rows the regenerate was given by getSessionMessages: its
\* context is those rows without the last (sessions here stay below the
\* context window).
RowsRead(t) == Len(conversationHistory[t]) + 1

\* u is the latest user row among the first n rows.
LatestUserWithin(u, n) ==
    /\ u \in 1..n
    /\ messages[u].role = "user"
    /\ \A j \in (u + 1)..n : messages[j].role # "user"

\* C35 as stated: with a new turn running concurrently, the regenerated
\* reply references the latest user message that precedes it in creation
\* order.  It fails when the turn persists its user message between the
\* regenerate's read of the session and its write.
C35_Original ==
    \A t \in Turns : IsRegen(t) =>
        \A r \in RegeneratedRows(t) :
            LatestUserWithin(messages[r].metadata.originalMessageId, r - 1)

\* C35, amended: the regenerated reply references the user message it
\* answers, the latest user message among the rows the regenerate read
\* from the session; a user message persisted after that read is not
\* referenced, although it precedes the reply in creation order.
C35_ReferencesLatestUserRead ==
    \A t \in Turns : IsRegen(t) =>
        \A r \in RegeneratedRows(t) :
            /\ RowsRead(t) < r
            /\ messages[r].metadata.originalMessageId = userMessageId[t]
            /\ LatestUserWithin(userMessageId[t], RowsRead(t))

\* C35 witness: the turn persisted its user message after the regenerate
\* had read the session and before it persisted its reply; the reply
\* references the earlier user message.
C35_Witness ==
    \E t, u \in Turns :
        /\ IsRegen(t) /\ kind[u] = "turn"
        /\ \E r \in RegeneratedRows(t) :
              /\ userMessageId[u] \in (RowsRead(t) + 1)..(r - 1)
              /\ messages[userMessageId[u]].role = "user"
              /\ messages[r].metadata.originalMessageId < userMessageId[u]

\* The write of the connected event itself threw: the schema accepted the
\* payload and the next thing the turn did was a res.write that failed.
ConnectedWriteThrew(t) ==
    /\ Len(calls[t]) >= 2
    /\ calls[t][1].call = "messageSchema.parse" /\ calls[t][1].out = "ok"
    /\ Threw(t, 2, {"res.write"})

\* The step logs a call of the turn other than the schema parse and a
\* channel write: the filter, a Record Store call or an adapter call.
LogsFilterStoreOrAdapterCall(t) ==
    \E i \in DOMAIN calls'[t] :
        /\ i > Len(calls[t])
        /\ calls'[t][i].call \notin {"messageSchema.parse", "res.write"}

\* A connected event sits nowhere but first on the channel; a started turn
\* whose payload the schema accepts (non-empty content, role user, no
\* malformed location) has it there unless that very write threw; a turn
\* whose payload the schema rejects has none.
ConnectedIsFirstEvent ==
    \A t \in Turns : IsStream(t) =>
        /\ \A i \in EventsOf(t, "connected") : i = 1
        /\ (/\ pc[t] # "idle"
            /\ Len(payload[t].content) >= 1 /\ payload[t].role = "user"
            /\ payload[t].userLocation # "malformed"
            /\ ~ConnectedWriteThrew(t))
           => (channel[t] # <<>> /\ channel[t][1].type = "connected")
        /\ (\/ Len(payload[t].content) = 0 \/ payload[t].role # "user"
            \/ payload[t].userLocation = "malformed")
           => EventsOf(t, "connected") = {}

\* The filter, every Record Store call and every adapter call of a streaming
\* turn is made with the connected event already first on the channel.
ConnectedBeforeCalls ==
    \A t \in Turns :
        IsStream(t) /\ LogsFilterStoreOrAdapterCall(t)
            => (channel[t] # <<>> /\ channel[t][1].type = "connected")

\* C36: on every streaming turn with a valid payload a connected event is
\* the first event written to the channel (when the channel took that
\* write), and it is written before the personal-information filter, any
\* Record Store call and any adapter call; on a turn with an invalid payload
\* no connected event is written.
C36_ConnectedFirstOnValidPayload ==
    /\ []ConnectedIsFirstEvent
    /\ [][ConnectedBeforeCalls]_vars

\* C36 witness: a streaming turn with an accepted payload went on to the
\* filter, the Record Store and the adapter, its channel opens with the
\* connected event and holds later events after it.
C36_Witness ==
    \E t \in Turns :
        /\ IsStream(t) /\ ValidPayload(payload[t])
        /\ Returned(t, "filterPersonalInformation")
        /\ Returned(t, "createChatMessage")
        /\ Returned(t, "generateSarcasticResponseStream")
        /\ Len(channel[t]) >= 3
        /\ channel[t][1].type = "connected"
        /\ EventsOf(t, "connected") = {1}

\* The first analyzer, in the order of Analyzers, that gives a description
\* for this call's argument and responses; the enhanced fallback always
\* does.
FirstAnalyzerToSucceed ==
    CHOOSE i \in DOMAIN Analyzers :
        /\ AnalyzerResult(i).kind = "value"
        /\ \A j \in 1..(i - 1) : AnalyzerResult(j).kind = "throw"

\* C37: analyzeImage never rejects and consults its analyzers strictly in
\* order: the analyzers called are a prefix of OCR.space, ImageBB, enhanced
\* fallback; each one after the first is called only when all before it
\* failed; and the call returns the description of the first analyzer to
\* succeed, which is the last one it called.
C37_AnalyzeImageOrderedNeverRejects ==
    /\ analysis.kind \in {"pending", "value"}
    /\ Len(consulted) <= Len(Analyzers)
    /\ \A i \in DOMAIN consulted :
          /\ consulted[i] = Analyzers[i]
          /\ \A j \in 1..(i - 1) : AnalyzerResult(j).kind = "throw"
    /\ analysis.kind = "value" =>
          /\ analysis = AnalyzerResult(FirstAnalyzerToSucceed)
          /\ Len(consulted) = FirstAnalyzerToSucceed

\* C37 witness: OCR.space and ImageBB both failed, the enhanced fallback was
\* called third and its description was returned.
C37_Witness ==
    /\ consulted = Analyzers
    /\ AnalyzerResult(1).kind = "throw" /\ AnalyzerResult(2).kind = "throw"
    /\ imageData.isString
    /\ analysis = AnalyzeImageWithEnhancedFallback(imageData)

\* The EventSource objects of the hook that are not closed.
OpenSources ==
    {i \in DOMAIN eventSources : eventSources[i].readyState # "closed"}

\* At most one EventSource is not closed, none was created for a null url,
\* and right after close() or the unmount isConnected is false.
OneSourceAndClosedMeansDisconnected ==
    /\ Cardinality(OpenSources) <= 1
    /\ \A i \in DOMAIN eventSources : eventSources[i].url # NullUrl
    /\ lastEvent.call \in {"close", "unmount"} =>
          ~isConnected /\ OpenSources = {}

\* A step that creates an EventSource is taken with a url that is not null
\* and leaves every earlier one closed; a step that handles a message whose
\* data is not valid JSON calls onMessage with nothing and leaves
\* isConnected as it was.
CreatesAfterClosingAndBadMessageIgnored ==
    /\ Len(eventSources') > Len(eventSources) =>
          /\ url # NullUrl
          /\ \A i \in DOMAIN eventSources :
                eventSources'[i].readyState = "closed"
    /\ (lastEvent'.call = "onmessage" /\ ~JsonParse(lastEvent'.data).ok) =>
          /\ received' = received
          /\ isConnected' = isConnected

\* C38: a useSSE hook instance has at most one open EventSource at any
\* time: none is created while url is null, the previous one is closed
\* before a new one is opened when url changes, and after close() or unmount
\* isConnected is false; a message whose data is not valid JSON does not
\* invoke onMessage and does not change isConnected.
C38_OneEventSourcePerHook ==
    /\ []OneSourceAndClosedMeansDisconnected
    /\ [][CreatesAfterClosingAndBadMessageIgnored]_vars

\* C38 witness: the url changed while the first EventSource was connected,
\* so a second one was created and the first is closed; a message with
\* broken data arrived on the second, after a valid one had been handed to
\* onMessage, and the hook is still connected.
C38_Witness ==
    /\ Len(eventSources) = 2
    /\ eventSources[1].readyState = "closed"
    /\ eventSources[2].readyState = "open"
    /\ eventSources[1].url # eventSources[2].url
    /\ lastEvent.call = "onmessage" /\ ~JsonParse(lastEvent.data).ok
    /\ Len(received) = 1
    /\ isConnected

\* storage.updateChatSession was called by the turn, whatever it returned.
CalledUpdateChatSession(t) ==
    \E i \in DOMAIN calls[t] : calls[t][i].call = "updateChatSession"

\* C27: every turn that reaches its end, on the streaming and on the
\* non-streaming endpoint, has called updateChatSession: the turn that
\* succeeded, the one that took the error path and the one cut short by a
\* disconnect.  The code breaks it: only the main path calls it, the catch
\* blocks and the return after a disconnect do not.
C27_EveryTurnBumpsSession ==
    \A t \in Turns :
        kind[t] \in {"stream", "turn"} /\ Finished(t) =>
            CalledUpdateChatSession(t)

====
